---- MODULE Spec2Model ----
(***************************************************************************)
(* Othello engine of src/Othello.py: board and move index (class Othello), *)
(* zobrist-hashed snapshots (HashedBoard, HashedLocalVersus), the play     *)
(* loops (LocalVersus.play, AI.play) and the search stack of class AI.     *)
(*                                                                         *)
(* Positions are pairs <<x, y>> as in the source (pos[0] = x, pos[1] = y); *)
(* the board is indexed board[y][x] with indices 0..7.  A python dict is   *)
(* a sequence of entries in insertion order.                               *)
(***************************************************************************)
EXTENDS Integers, Sequences, FiniteSets, TLC

(***************************************************************************)
(* Constants.py (imported with "from Constants import *")                  *)
(***************************************************************************)
BOARD_SIZE == 8

Rng == 0 .. (BOARD_SIZE - 1)

Colours == {"W", "B"}

FLIP_RULE == [W |-> "B", B |-> "W"]

FLIP_LINES ==
  << <<-1, -1>>, <<-1, 0>>, <<-1, 1>>, <<0, -1>>,
     <<0, 1>>, <<1, -1>>, <<1, 0>>, <<1, 1>> >>

START_POS == (<<3, 3>> :> "W") @@ (<<4, 4>> :> "W") @@
             (<<3, 4>> :> "B") @@ (<<4, 3>> :> "B")

XOR_INDICES == [E |-> 0, W |-> 1, B |-> 2]

\* python None, used as the falsy result of check_flip_line
None == <<>>

(***************************************************************************)
(* class Othello                                                           *)
(***************************************************************************)
\* the list comprehension of Othello.__init__ that builds the opening board
StartBoard ==
  [y \in Rng |-> [x \in Rng |->
      IF <<x, y>> \in DOMAIN START_POS THEN START_POS[<<x, y>>] ELSE "E"]]

\* the cells in the order of the two loops of board_change (x outer, y inner)
CellOrder == [i \in 1 .. (BOARD_SIZE * BOARD_SIZE) |->
                <<(i - 1) \div BOARD_SIZE, (i - 1) % BOARD_SIZE>>]

\* dict helpers: a dict is a sequence of [pos, lines] entries
keys(d) == {d[i].pos : i \in DOMAIN d}

get(d, pos) == LET i == CHOOSE j \in DOMAIN d : d[j].pos = pos IN d[i].lines

RECURSIVE line_check(_, _, _, _, _)
\* first loop of line_iterator for one direction: the index i at which the
\* line is closed by a piece of current_colour (flip_line_holds), else 0
line_check(board, pos, current_colour, step, i) ==
  IF i >= BOARD_SIZE THEN 0
  ELSE LET x == step[1] * i + pos[1]
           y == step[2] * i + pos[2]
       IN IF ~(0 <= x /\ x < 8 /\ 0 <= y /\ y < 8) THEN 0
          ELSE IF i = 1
               THEN IF board[y][x] # FLIP_RULE[current_colour] THEN 0
                    ELSE line_check(board, pos, current_colour, step, i + 1)
               ELSE IF board[y][x] = current_colour THEN i
               ELSE IF board[y][x] = "E" THEN 0
               ELSE line_check(board, pos, current_colour, step, i + 1)

RECURSIVE line_iterator(_, _, _, _)
\* the triples <<x, y, step>> the generator yields on an unchanging board
line_iterator(board, pos, current_colour, check_lines) ==
  IF check_lines = <<>> THEN <<>>
  ELSE LET step == Head(check_lines)
           i    == line_check(board, pos, current_colour, step, 1)
           here == IF i = 0 THEN <<>>
                   ELSE [z \in 1 .. (i - 1) |->
                           <<step[1] * z + pos[1], step[2] * z + pos[2], step>>]
       IN here \o line_iterator(board, pos, current_colour, Tail(check_lines))

check_flip_line(board, pos, current_colour, check_line) ==
  LET it == line_iterator(board, pos, current_colour, <<check_line>>)
  IN IF it = <<>> THEN None ELSE it[1][3]

\* adjacent with the lower bounds of the range test off by one
adjacent_strict(board, pos) ==
  LET inside(step) ==
        LET x == pos[1] + step[1]
            y == pos[2] + step[2]
        IN /\ 0 < x /\ x < BOARD_SIZE /\ 0 < y /\ y < BOARD_SIZE
           /\ board[y][x] # "E"
      sel == SelectSeq(FLIP_LINES, inside)
  IN [k \in 1 .. Len(sel) |->
        <<board[pos[2] + sel[k][2]][pos[1] + sel[k][1]], sel[k]>>]

\* the <<colour, step>> pairs yielded by adjacent
adjacent(board, pos) ==
  LET inside(step) ==
        LET x == pos[1] + step[1]
            y == pos[2] + step[2]
        IN /\ 0 <= x /\ x < BOARD_SIZE /\ 0 <= y /\ y < BOARD_SIZE
           /\ board[y][x] # "E"
      sel == SelectSeq(FLIP_LINES, inside)
  IN [k \in 1 .. Len(sel) |->
        <<board[pos[2] + sel[k][2]][pos[1] + sel[k][1]], sel[k]>>]

\* lines_for with the colour of the adjacent piece tested the wrong way round
lines_for_own(board, pos, colour) ==
  LET adj == adjacent(board, pos)
      hit(a) == /\ a[1] = colour
                /\ check_flip_line(board, pos, FLIP_RULE[colour], a[2]) # None
      sel == SelectSeq(adj, hit)
  IN [k \in 1 .. Len(sel) |->
        check_flip_line(board, pos, FLIP_RULE[colour], sel[k][2])]

\* the list board_change accumulates for one empty cell and one colour
lines_for(board, pos, colour) ==
  LET adj == adjacent(board, pos)
      hit(a) == /\ a[1] = FLIP_RULE[colour]
                /\ check_flip_line(board, pos, colour, a[2]) # None
      sel == SelectSeq(adj, hit)
  IN [k \in 1 .. Len(sel) |-> check_flip_line(board, pos, colour, sel[k][2])]

board_change(board) ==
  LET entry(colour) ==
        LET all == [i \in DOMAIN CellOrder |->
                      [pos   |-> CellOrder[i],
                       lines |-> IF board[CellOrder[i][2]][CellOrder[i][1]] = "E"
                                 THEN lines_for(board, CellOrder[i], colour)
                                 ELSE <<>>]]
            nonempty(e) == e.lines # <<>>
        IN SelectSeq(all, nonempty)
  IN [W |-> entry("W"), B |-> entry("B")]

\* Othello.__init__: the board and its freshly computed move index
Othello_init(board) == [board |-> board, possible_moves |-> board_change(board)]

\* flip that leaves the piece as it lies
flip_kept(board, pos) == board

\* Othello.flip on a bare board
flip(board, pos) ==
  [board EXCEPT ![pos[2]][pos[1]] = FLIP_RULE[board[pos[2]][pos[1]]]]

RECURSIVE flip_cells(_, _)
flip_cells(board, cells) ==
  IF cells = <<>> THEN board
  ELSE flip_cells(flip(board, <<Head(cells)[1], Head(cells)[2]>>), Tail(cells))

\* flip_line that stops after the first recorded direction
flip_line_first(board, pos, current_colour, lines) ==
  IF lines = <<>> THEN board
  ELSE flip_cells(board, line_iterator(board, pos, current_colour, <<Head(lines)>>))

RECURSIVE flip_line(_, _, _, _)
\* flip_line consumes the generator lazily: the cells of one direction are
\* computed on the board as left by the flips of the directions before it
flip_line(board, pos, current_colour, lines) ==
  IF lines = <<>> THEN board
  ELSE flip_line(
         flip_cells(board,
                    line_iterator(board, pos, current_colour, <<Head(lines)>>)),
         pos, current_colour, Tail(lines))

\* Othello.place: the cell is written first; an absent key makes flip_line
\* raise KeyError before board_change is reached
place(oth, pos, current_colour) ==
  IF pos \notin keys(oth.possible_moves[current_colour])
  THEN [board |-> [oth.board EXCEPT ![pos[2]][pos[1]] = current_colour],
        possible_moves |-> oth.possible_moves,
        raised |-> "KeyError", result |-> None]
  ELSE Othello_init(
         flip_line([oth.board EXCEPT ![pos[2]][pos[1]] = current_colour],
                   pos, current_colour,
                   get(oth.possible_moves[current_colour], pos)))
       @@ [raised |-> "", result |-> pos]

\* can_be_placed with the range test alone: every cell of the board passes
can_be_placed_on_board(oth, pos, current_colour) ==
  IF /\ 0 <= pos[1] /\ pos[1] < BOARD_SIZE
     /\ 0 <= pos[2] /\ pos[2] < BOARD_SIZE
  THEN <<pos, TRUE>>
  ELSE <<pos, FALSE>>

\* can_be_placed asking only whether the cell is on the board and a key of
\* either colour
can_be_placed_either(oth, pos, current_colour) ==
  IF /\ 0 <= pos[1] /\ pos[1] < BOARD_SIZE
     /\ 0 <= pos[2] /\ pos[2] < BOARD_SIZE
     /\ pos \in keys(oth.possible_moves["W"]) \cup keys(oth.possible_moves["B"])
  THEN <<pos, TRUE>>
  ELSE <<pos, FALSE>>

\* Othello.can_be_placed for integer inputs: <<pos, accepted>>
can_be_placed(oth, pos, current_colour) ==
  IF /\ 0 <= pos[1] /\ pos[1] < BOARD_SIZE
     /\ 0 <= pos[2] /\ pos[2] < BOARD_SIZE
     /\ pos \in keys(oth.possible_moves[current_colour])
  THEN <<pos, TRUE>>
  ELSE <<pos, FALSE>>

\* Othello.count_pieces (it reads board[x][y]; the totals do not depend on it)
count_pieces(board) ==
  [k \in {"W", "B", "E"} |->
     Cardinality({p \in Rng \X Rng : board[p[1]][p[2]] = k})]

\* Othello.end_game_iterator as a resumable generator: at = "start" before
\* the first next(), "y1" suspended at the first yield (colour is flipped on
\* resumption), "y2" suspended at the yield of the preemptive turn change,
\* "end" once the loop has broken; yielded is "StopIteration" when it ends
gen_new(colour) == [colour |-> colour, at |-> "start"]

\* end_game_iterator whose preemptive turn change yields before it flips
gen_next_unflipped(gen, possible_moves) ==
  LET colour == IF gen.at = "y1" THEN FLIP_RULE[gen.colour] ELSE gen.colour
  IN IF gen.at = "end" THEN [gen |-> gen, yielded |-> "StopIteration"]
     ELSE IF Len(possible_moves[colour]) # 0
     THEN [gen |-> [colour |-> colour, at |-> "y1"], yielded |-> colour]
     ELSE IF Len(possible_moves[FLIP_RULE[colour]]) # 0
     THEN [gen |-> [colour |-> colour, at |-> "y1"], yielded |-> colour]
     ELSE [gen |-> [colour |-> colour, at |-> "end"], yielded |-> "StopIteration"]

\* end_game_iterator without the final break
gen_next_endless(gen, possible_moves) ==
  LET colour == IF gen.at = "y1" THEN FLIP_RULE[gen.colour] ELSE gen.colour
  IN IF Len(possible_moves[colour]) # 0
     THEN [gen |-> [colour |-> colour, at |-> "y1"], yielded |-> colour]
     ELSE [gen |-> [colour |-> FLIP_RULE[colour], at |-> "y2"],
           yielded |-> FLIP_RULE[colour]]

gen_next(gen, possible_moves) ==
  LET colour == IF gen.at = "y1" THEN FLIP_RULE[gen.colour] ELSE gen.colour
  IN IF gen.at = "end" THEN [gen |-> gen, yielded |-> "StopIteration"]
     ELSE IF Len(possible_moves[colour]) # 0
     THEN [gen |-> [colour |-> colour, at |-> "y1"], yielded |-> colour]
     ELSE IF Len(possible_moves[FLIP_RULE[colour]]) # 0
     THEN [gen |-> [colour |-> FLIP_RULE[colour], at |-> "y2"],
           yielded |-> FLIP_RULE[colour]]
     ELSE [gen |-> [colour |-> colour, at |-> "end"], yielded |-> "StopIteration"]

(***************************************************************************)
(* 64-bit zobrist numbers are the sets of their one-bits (bit 0 .. bit 63), *)
(* so that a ^ b is the symmetric difference.                              *)
(***************************************************************************)
XOR(a, b) == (a \ b) \cup (b \ a)

\* AI.__init__: table[cell][index] = getrandbits(64); the draw is a
\* parameter, each seed standing for one outcome of the 192 draws
getrandbits_table(seed) ==
  [cell \in 0 .. (BOARD_SIZE * BOARD_SIZE - 1) |->
     [index \in 0 .. 2 |->
        {bit \in 0 .. 63 :
           ((cell * 3 + index + seed) * (bit + 5) + cell * index + bit * seed) % 7 < 3}]]

\* the double loop of get_hash_version: bit b of the XOR of the 64 table
\* entries is set iff an odd number of the entries have it set
zobrist(board, table) ==
  {bit \in 0 .. 63 :
     Cardinality({cell \in 0 .. (BOARD_SIZE * BOARD_SIZE - 1) :
        bit \in table[cell][XOR_INDICES[board[cell \div BOARD_SIZE][cell % BOARD_SIZE]]]})
     % 2 = 1}

\* AI.get_hash_version: a HashedLocalVersus over a deep copy of the board,
\* sharing the move index and the table
get_hash_version(oth, table) ==
  [board |-> oth.board, hash_num |-> zobrist(oth.board, table),
   possible_moves |-> oth.possible_moves, table |-> table]

(***************************************************************************)
(* class HashedLocalVersus                                                 *)
(***************************************************************************)
\* HashedLocalVersus.flip that forgets to XOR the new colour in
Hashed_flip_half(bs, pos, table) ==
  LET current_colour == bs.board[pos[2]][pos[1]]
      cell == pos[2] * BOARD_SIZE + pos[1]
  IN [board    |-> [bs.board EXCEPT ![pos[2]][pos[1]] = FLIP_RULE[current_colour]],
      hash_num |-> XOR(bs.hash_num, table[cell][XOR_INDICES[current_colour]])]

\* HashedLocalVersus.flip on the pair (board, hash_num)
Hashed_flip(bs, pos, table) ==
  LET current_colour == bs.board[pos[2]][pos[1]]
      cell == pos[2] * BOARD_SIZE + pos[1]
  IN [board    |-> [bs.board EXCEPT ![pos[2]][pos[1]] = FLIP_RULE[current_colour]],
      hash_num |-> XOR(XOR(bs.hash_num, table[cell][XOR_INDICES[current_colour]]),
                       table[cell][XOR_INDICES[FLIP_RULE[current_colour]]])]

RECURSIVE Hashed_flip_cells(_, _, _)
Hashed_flip_cells(bs, cells, table) ==
  IF cells = <<>> THEN bs
  ELSE Hashed_flip_cells(
         Hashed_flip(bs, <<Head(cells)[1], Head(cells)[2]>>, table),
         Tail(cells), table)

RECURSIVE Hashed_flip_line(_, _, _, _, _)
\* Othello.flip_line run on a HashedLocalVersus (self.flip is Hashed_flip)
Hashed_flip_line(bs, pos, current_colour, lines, table) ==
  IF lines = <<>> THEN bs
  ELSE Hashed_flip_line(
         Hashed_flip_cells(bs,
            line_iterator(bs.board, pos, current_colour, <<Head(lines)>>), table),
         pos, current_colour, Tail(lines), table)

\* the assignments of HashedLocalVersus.place before flip_line
Hashed_set(h, pos, current_colour) ==
  [board    |-> [h.board EXCEPT ![pos[2]][pos[1]] = current_colour],
   hash_num |-> XOR(XOR(h.hash_num,
                        h.table[pos[2] * BOARD_SIZE + pos[1]][XOR_INDICES["E"]]),
                    h.table[pos[2] * BOARD_SIZE + pos[1]][XOR_INDICES[current_colour]])]

\* the snapshot HashedLocalVersus.place leaves once flip_line is through
Hashed_changed(bs, table) ==
  [board |-> bs.board, hash_num |-> bs.hash_num,
   possible_moves |-> board_change(bs.board), table |-> table, raised |-> ""]

\* HashedLocalVersus.place
Hashed_place(h, pos, current_colour) ==
  IF pos \notin keys(h.possible_moves[current_colour])
  THEN Hashed_set(h, pos, current_colour)
       @@ [possible_moves |-> h.possible_moves, table |-> h.table,
           raised |-> "KeyError"]
  ELSE Hashed_changed(
         Hashed_flip_line(Hashed_set(h, pos, current_colour), pos, current_colour,
                          get(h.possible_moves[current_colour], pos), h.table),
         h.table)

\* the HashedBoard a transposition entry is keyed by (__hash__ and __eq__)
board_state(h) == [board |-> h.board, hash_num |-> h.hash_num]

(***************************************************************************)
(* Scores.  Python computes them as int or float (IEEE double, results     *)
(* rounded to nearest, ties to even).  A score is the integer N of         *)
(* value = N / 2^60, written in three limbs <<a, b, c>> with               *)
(* N = a * 2^48 + b * 2^24 + c, b and c in 0 .. 2^24 - 1, the sign in a.   *)
(* Every double the program forms has 53 significant bits above 2^-60 and  *)
(* is below 2^17 in size, so it is such an N exactly.  a = 2^30 and        *)
(* a = -2^30 stand for float('+inf') and float('-inf'), <<0, -1, 0>> for   *)
(* a raised ZeroDivisionError.                                             *)
(***************************************************************************)
Abs(k) == IF k < 0 THEN -k ELSE k

\* carries propagated: the two low limbs brought into 0 .. 2^24 - 1
Norm(a, b, c) ==
  LET b1 == b + (c \div 2^24)
  IN <<a + (b1 \div 2^24), b1 % 2^24, c % 2^24>>

\* the rounding of a float operation: the double nearest to the exact result
\* x, ties to even; sticky says that x was cut off from a larger result.
\* d is the number of bits of x beyond 53
Round(x, sticky) ==
  LET m == IF x[1] < 0 THEN Norm(-x[1], -x[2], -x[3]) ELSE x
      d == CHOOSE k \in 0 .. 26 : m[1] < 2^(k + 5) /\ (k = 0 \/ m[1] >= 2^(k + 4))
      low == m[3] % 2^d
      lsb == IF d < 24 THEN (m[3] \div 2^d) % 2 ELSE m[2] % 2
      up == 2 * low > 2^d \/ (2 * low = 2^d /\ (sticky \/ lsb = 1))
      r == Norm(m[1], m[2], m[3] - low + (IF up THEN 2^d ELSE 0))
  IN IF d = 0 THEN x
     ELSE IF x[1] < 0 THEN Norm(-r[1], -r[2], -r[3]) ELSE r

\* n / d of two ints: long division to 60 binary places, then rounded
Frac(n, d) ==
  IF d = 0 THEN <<0, -1, 0>>
  ELSE LET p == Abs(n)
           q == Abs(d)
           r1 == (p * 2^12) % q
           r2 == (r1 * 2^24) % q
           m == Round(<<(p * 2^12) \div q, (r1 * 2^24) \div q, (r2 * 2^24) \div q>>,
                      (r2 * 2^24) % q # 0)
       IN IF (n < 0) # (d < 0) THEN Norm(-m[1], -m[2], -m[3]) ELSE m

Num(k) == <<k * 2^12, 0, 0>>

PosInf == <<2^30, 0, 0>>

NegInf == <<-(2^30), 0, 0>>

ZeroDivisionError == <<0, -1, 0>>

\* a + b and k * a in floats; an infinity absorbs what is added to it
Add(a, b) ==
  IF Abs(a[1]) = 2^30 THEN a
  ELSE IF Abs(b[1]) = 2^30 THEN b
  ELSE Round(Norm(a[1] + b[1], a[2] + b[2], a[3] + b[3]), FALSE)

Scale(k, a) == Round(Norm(k * a[1], k * a[2], k * a[3]), FALSE)

\* sign of a - b, infinities included
Cmp(a, b) ==
  IF a = b THEN 0
  ELSE IF a[1] # b[1] THEN (IF a[1] < b[1] THEN -1 ELSE 1)
  ELSE IF a[2] # b[2] THEN (IF a[2] < b[2] THEN -1 ELSE 1)
  ELSE IF a[3] < b[3] THEN -1 ELSE 1

Lt(a, b) == Cmp(a, b) < 0

Le(a, b) == Cmp(a, b) <= 0

Max(a, b) == IF Lt(a, b) THEN b ELSE a

Min(a, b) == IF Lt(b, a) THEN b ELSE a

(***************************************************************************)
(* class AI: evaluation                                                    *)
(***************************************************************************)
\* the list "count" of check_if_terminal and terminal_utility: the <<v, k>>
\* pairs of W and B by descending count; the stable sort keeps W first on a tie
sorted_count(board) ==
  LET count == count_pieces(board)
  IN IF count["W"] >= count["B"]
     THEN << <<count["W"], "W">>, <<count["B"], "B">> >>
     ELSE << <<count["B"], "B">>, <<count["W"], "W">> >>

check_if_terminal(h) ==
  IF h.possible_moves["B"] = <<>> /\ h.possible_moves["W"] = <<>> THEN TRUE
  ELSE IF h.possible_moves["B"] = <<>> \/ h.possible_moves["W"] = <<>>
       THEN sorted_count(h.board)[2][1] = 0
       ELSE FALSE

\* terminal_utility without the bonus of 85: the margin alone
terminal_utility_bare(h) ==
  LET count == sorted_count(h.board)
  IN IF count[1][1] = count[2][1] THEN 0
     ELSE IF count[1][2] = "W" THEN count[1][1] - count[2][1]
     ELSE count[2][1] - count[1][1]

\* terminal_utility that negates the bonus but not the margin for Dark
terminal_utility_margin(h) ==
  LET count == sorted_count(h.board)
  IN IF count[1][1] = count[2][1] THEN 0
     ELSE IF count[1][2] = "W" THEN 85 + count[1][1] - count[2][1]
     ELSE -85 + count[1][1] - count[2][1]

\* AI.terminal_utility, an integer
terminal_utility(h) ==
  LET count == sorted_count(h.board)
  IN IF count[1][1] = count[2][1] THEN 0
     ELSE IF count[1][2] = "W" THEN 85 + count[1][1] - count[2][1]
     ELSE -85 - count[1][1] + count[2][1]

LEFT_RIGHT_DIAGONALS ==
  [k \in 1 .. (2 * BOARD_SIZE - 1) |->
     IF k <= BOARD_SIZE THEN <<0, k - 1>> ELSE <<k - BOARD_SIZE, 0>>]

RIGHT_LEFT_DIAGONALS ==
  [k \in 1 .. (2 * BOARD_SIZE - 1) |->
     IF k <= BOARD_SIZE THEN <<0, k - 1>> ELSE <<k - BOARD_SIZE, BOARD_SIZE - 1>>]

RECURSIVE scan_line(_, _, _, _)
\* one line of stability_iterator: the cells <<y, x>> from a start along a step
scan_line(y, x, dy, dx) ==
  IF y < 0 \/ y >= BOARD_SIZE \/ x < 0 \/ x >= BOARD_SIZE THEN <<>>
  ELSE << <<y, x>> >> \o scan_line(y + dy, x + dx, dy, dx)

\* AI.stability_iterator: the lines it walks (rows, columns, both diagonal
\* families); each line starts with position 1 or 2, which resets the
\* last_*_opposing markers
stability_iterator ==
  {scan_line(y, 0, 0, 1) : y \in Rng}
  \cup {scan_line(0, x, 1, 0) : x \in Rng}
  \cup {scan_line(LEFT_RIGHT_DIAGONALS[k][1], LEFT_RIGHT_DIAGONALS[k][2], 1, 1) :
          k \in DOMAIN LEFT_RIGHT_DIAGONALS}
  \cup {scan_line(RIGHT_LEFT_DIAGONALS[k][1], RIGHT_LEFT_DIAGONALS[k][2], 1, -1) :
          k \in DOMAIN RIGHT_LEFT_DIAGONALS}

\* one colour's half of the loop body of the stability scan for the tracked
\* colour own: s = [removed, opposing, empty], where removed collects what
\* the body subtracts from tracked_<own> and empty is last_<own>_empty
stability_half(s, cell, yx, own) ==
  IF s.opposing # "N"
  THEN IF cell = "E"
       THEN [removed  |-> s.removed \cup s.empty, opposing |-> "E", empty |-> {}]
       ELSE IF cell = FLIP_RULE[own]
       THEN IF s.empty # {}
            THEN IF s.opposing = "E"
                 THEN [removed |-> s.removed \cup s.empty, opposing |-> s.opposing,
                       empty |-> {}]
                 ELSE s
            ELSE [s EXCEPT !.opposing = FLIP_RULE[own]]
       ELSE [s EXCEPT !.empty = s.empty \cup {yx}]
  ELSE IF cell = "E" \/ cell = FLIP_RULE[own]
       THEN [s EXCEPT !.opposing = cell, !.empty = {}]
       ELSE s

RECURSIVE stability_line(_, _, _, _, _)
\* the loop body applied along one line from its k-th cell on
stability_line(board, line, k, s, own) ==
  IF k > Len(line) THEN s.removed
  ELSE stability_line(board, line, k + 1,
         stability_half(s, board[line[k][1]][line[k][2]], line[k], own), own)

\* tracked_black and tracked_white at the end of the scan: the subtractions
\* of the lines commute, and the early break only skips lines once both sets
\* are already empty
stability(board) ==
  IF \/ board[0][0] # "E" \/ board[0][BOARD_SIZE - 1] # "E"
     \/ board[BOARD_SIZE - 1][0] # "E" \/ board[BOARD_SIZE - 1][BOARD_SIZE - 1] # "E"
  THEN LET start == [removed |-> {}, opposing |-> "N", empty |-> {}]
           gone(own) == UNION {stability_line(board, line, 1, start, own) :
                                 line \in stability_iterator}
       IN << {<<y, x>> \in Rng \X Rng : board[y][x] = "B"} \ gone("B"),
             {<<y, x>> \in Rng \X Rng : board[y][x] = "W"} \ gone("W") >>
  ELSE <<{}, {}>>

piece_to_heuristic == [W |-> 1, B |-> -1, E |-> 0]

\* AI.heuristic_utility
\* the last statement of heuristic_utility over the quantities computed
\* before it: count, the move counts, the corner cells, the tracked pieces
heuristic_sum(count, white_move_count, black_move_count, corners, black_stability, white_stability) ==
  IF count["W"] + count["B"] = 0 \/ white_move_count + black_move_count = 0
  THEN ZeroDivisionError
  ELSE Add(Add(Add(Scale(30,
                     IF Abs(corners[1]) + Abs(corners[2]) + Abs(corners[3])
                        + Abs(corners[4]) # 0
                     THEN Frac(corners[1] + corners[2] + corners[3] + corners[4],
                               Abs(corners[1]) + Abs(corners[2]) + Abs(corners[3])
                               + Abs(corners[4]))
                     ELSE Num(0)),
                   Scale(5, Frac(white_move_count - black_move_count,
                                 white_move_count + black_move_count))),
               Scale(25,
                     IF white_stability + black_stability # 0
                     THEN Frac(white_stability - black_stability,
                               white_stability + black_stability)
                     ELSE Num(0))),
           Scale(25, Frac(count["W"] - count["B"], count["W"] + count["B"])))

tracked_sum(count, white_move_count, black_move_count, corners, tracked) ==
  heuristic_sum(count, white_move_count, black_move_count, corners,
                Cardinality(tracked[1]), Cardinality(tracked[2]))

heuristic_utility(h) ==
  tracked_sum(count_pieces(h.board),
              Len(h.possible_moves["W"]), Len(h.possible_moves["B"]),
              << piece_to_heuristic[h.board[0][0]],
                 piece_to_heuristic[h.board[BOARD_SIZE - 1][0]],
                 piece_to_heuristic[h.board[0][BOARD_SIZE - 1]],
                 piece_to_heuristic[h.board[BOARD_SIZE - 1][BOARD_SIZE - 1]] >>,
              stability(h.board))

BOARD_WEIGHT ==
  << <<4, -3, 2, 2, 2, 2, -3, 4>>,
     <<-3, -4, -1, -1, -1, -1, -4, -3>>,
     <<2, -1, 1, 0, 0, 1, -1, 2>>,
     <<2, -1, 0, 1, 1, 0, -1, 2>>,
     <<2, -1, 0, 1, 1, 0, -1, 2>>,
     <<2, -1, 1, 0, 0, 1, -1, 2>>,
     <<-3, -4, -1, -1, -1, -1, -4, -3>>,
     <<4, -3, 2, 2, 2, 2, -3, 4>> >>

\* AI.utility, an integer
utility(h, move, factor) ==
  IF check_if_terminal(h) THEN terminal_utility(h) * 10 * factor
  ELSE BOARD_WEIGHT[move[1] + 1][move[2] + 1]

(***************************************************************************)
(* class AI: search.  The transposition table (searched_moves, search_dict) *)
(* is a function from HashedBoard keys to <<value, type_of_info, depth,    *)
(* move>>; every search operator returns the table it leaves behind.       *)
(***************************************************************************)
EmptyDict == [k \in {} |-> <<>>]

dict_set(d, k, v) == IF k \in DOMAIN d THEN [d EXCEPT ![k] = v] ELSE d @@ (k :> v)

RECURSIVE insert_sorted(_, _)
\* insert e behind every element whose key is >= e.key (stable, descending)
insert_sorted(sorted, e) ==
  IF sorted = <<>> THEN <<e>>
  ELSE IF Head(sorted).key >= e.key
       THEN <<Head(sorted)>> \o insert_sorted(Tail(sorted), e)
       ELSE <<e>> \o sorted

RECURSIVE sorted_desc(_, _, _)
\* sorted(boards, reverse=True, key=...): equal keys keep their order
sorted_desc(boards, k, acc) ==
  IF k > Len(boards) THEN acc
  ELSE sorted_desc(boards, k + 1, insert_sorted(acc, boards[k]))

\* one element of boards with its sort key
sort_entry(new_board, action, check_move_first, factor) ==
  [new_board |-> new_board,
   action    |-> action,
   key       |-> (IF action = check_move_first THEN 50000 ELSE 0)
                 + utility(new_board, action, factor)]

\* AI.sort_actions: each successor is placed on its own deep copy
sort_actions(actions, h, check_move_first, factor, player) ==
  sorted_desc([k \in DOMAIN actions |->
                 sort_entry(Hashed_place(h, actions[k].pos, player), actions[k].pos,
                            check_move_first, factor)],
              1, <<>>)

RECURSIVE minimax(_, _, _, _, _, _, _)
RECURSIVE minimax_expand(_, _, _, _, _, _, _, _)
RECURSIVE minimax_max(_, _, _, _, _, _, _, _)
RECURSIVE minimax_min(_, _, _, _, _, _, _, _)
RECURSIVE max_step(_, _, _, _, _, _, _, _)
RECURSIVE min_step(_, _, _, _, _, _, _, _)

\* the body of the maximising loop for successor i, r being its evaluation
max_step(sorted_actions, i, score, action, a, beta, lookahead, r) ==
  IF Le(beta, Max(a, Max(score, r.score)))
  THEN [score |-> Max(score, r.score),
        move  |-> IF Lt(score, r.score) THEN sorted_actions[i].action ELSE action,
        table |-> r.table]
  ELSE minimax_max(sorted_actions, i + 1, Max(score, r.score),
                   IF Lt(score, r.score) THEN sorted_actions[i].action ELSE action,
                   Max(a, Max(score, r.score)), beta, lookahead, r.table)

\* the loop of the maximising branch from successor i on
minimax_max(sorted_actions, i, score, action, a, beta, lookahead, searched_moves) ==
  IF i > Len(sorted_actions)
  THEN [score |-> score, move |-> action, table |-> searched_moves]
  ELSE max_step(sorted_actions, i, score, action, a, beta, lookahead,
                minimax(sorted_actions[i].new_board, a, beta,
                        Len(sorted_actions[i].new_board.possible_moves["B"]) = 0,
                        FALSE, lookahead - 1, searched_moves))

\* the body of the minimising loop for successor i, r being its evaluation
min_step(sorted_actions, i, score, action, alpha, b, lookahead, r) ==
  IF Le(Min(b, Min(score, r.score)), alpha)
  THEN [score |-> Min(score, r.score),
        move  |-> IF Lt(r.score, score) THEN sorted_actions[i].action ELSE action,
        table |-> r.table]
  ELSE minimax_min(sorted_actions, i + 1, Min(score, r.score),
                   IF Lt(r.score, score) THEN sorted_actions[i].action ELSE action,
                   alpha, Min(b, Min(score, r.score)), lookahead, r.table)

\* the loop of the minimising branch from successor i on
minimax_min(sorted_actions, i, score, action, alpha, b, lookahead, searched_moves) ==
  IF i > Len(sorted_actions)
  THEN [score |-> score, move |-> action, table |-> searched_moves]
  ELSE min_step(sorted_actions, i, score, action, alpha, b, lookahead,
                minimax(sorted_actions[i].new_board, alpha, b,
                        Len(sorted_actions[i].new_board.possible_moves["W"]) # 0,
                        FALSE, lookahead - 1, searched_moves))

\* the three stores that end minimax, in their order, and its return value;
\* r is the result of the loop
minimax_store(r, key, alpha, beta, initial, lookahead) ==
  LET t1 == IF Le(r.score, alpha)
            THEN dict_set(r.table, key, <<r.score, 2, lookahead, r.move>>)
            ELSE r.table
      t2 == IF Lt(alpha, r.score) /\ Lt(r.score, beta)
            THEN dict_set(t1, key, <<r.score, 1, lookahead, r.move>>)
            ELSE t1
      t3 == IF Le(beta, r.score)
            THEN dict_set(t2, key, <<r.score, 0, lookahead, r.move>>)
            ELSE t2
  IN [score |-> r.score, move |-> IF initial THEN r.move ELSE None, table |-> t3]

\* the same with the two tests in the other order: a node whose depth budget
\* is spent is scored by heuristic_utility before it is asked to be terminal
minimax_expand_leaf_first(h, alpha, beta, check_move_first, maximising_player, initial, lookahead, searched_moves) ==
  IF lookahead <= 0
  THEN [score |-> heuristic_utility(h), move |-> None, table |-> searched_moves]
  ELSE IF check_if_terminal(h)
  THEN [score |-> Num(terminal_utility(h)), move |-> None, table |-> searched_moves]
  ELSE minimax_store(
         IF maximising_player
         THEN minimax_max(
                sort_actions(h.possible_moves["W"], h, check_move_first, 1, "W"),
                1, NegInf, None, alpha, beta, lookahead, searched_moves)
         ELSE minimax_min(
                sort_actions(h.possible_moves["B"], h, check_move_first, -1, "B"),
                1, PosInf, None, alpha, beta, lookahead, searched_moves),
         board_state(h), alpha, beta, initial, lookahead)

\* AI.minimax after the table lookup, with the window the lookup left
minimax_expand(h, alpha, beta, check_move_first, maximising_player, initial, lookahead, searched_moves) ==
  IF check_if_terminal(h)
  THEN [score |-> Num(terminal_utility(h)), move |-> None, table |-> searched_moves]
  ELSE IF lookahead <= 0
  THEN [score |-> heuristic_utility(h), move |-> None, table |-> searched_moves]
  ELSE minimax_store(
         IF maximising_player
         THEN minimax_max(
                sort_actions(h.possible_moves["W"], h, check_move_first, 1, "W"),
                1, NegInf, None, alpha, beta, lookahead, searched_moves)
         ELSE minimax_min(
                sort_actions(h.possible_moves["B"], h, check_move_first, -1, "B"),
                1, PosInf, None, alpha, beta, lookahead, searched_moves),
         board_state(h), alpha, beta, initial, lookahead)

\* the lookup of AI.minimax when it found the entry search at a depth that
\* suffices, with the window tightened by it
minimax_found(h, search, alpha, beta, maximising_player, initial, lookahead, searched_moves) ==
  IF search[2] = 1 \/ Le(beta, alpha)
  THEN [score |-> search[1], move |-> IF initial THEN search[4] ELSE None,
        table |-> searched_moves]
  ELSE minimax_expand(h, alpha, beta, search[4], maximising_player, initial,
                      lookahead, searched_moves)

\* AI.minimax; move is None where the source returns the bare score
minimax(h, alpha, beta, maximising_player, initial, lookahead, searched_moves) ==
  IF /\ board_state(h) \in DOMAIN searched_moves
     /\ searched_moves[board_state(h)][3] >= lookahead
  THEN minimax_found(h, searched_moves[board_state(h)],
         IF searched_moves[board_state(h)][2] = 0
         THEN Max(alpha, searched_moves[board_state(h)][1]) ELSE alpha,
         IF searched_moves[board_state(h)][2] = 2
         THEN Min(beta, searched_moves[board_state(h)][1]) ELSE beta,
         maximising_player, initial, lookahead, searched_moves)
  ELSE minimax_expand(h, alpha, beta, None, maximising_player, initial, lookahead,
                      searched_moves)

RECURSIVE mtdf_loop(_, _, _, _, _, _, _)
RECURSIVE mtdf_step(_, _, _, _, _, _)

\* the end of the loop body of AI.mtdf, r being the null-window search
mtdf_step(h, r, beta, lower_bound, upper_bound, lookahead) ==
  IF Lt(r.score, beta)
  THEN mtdf_loop(h, r.score, r.move, lower_bound, r.score, lookahead, r.table)
  ELSE mtdf_loop(h, r.score, r.move, r.score, upper_bound, lookahead, r.table)

\* the null-window search of the loop body for the beta chosen
mtdf_search(h, beta, lower_bound, upper_bound, lookahead, search_dict) ==
  mtdf_step(h,
            minimax(h, Add(beta, Num(-1)), beta, TRUE, TRUE, lookahead, search_dict),
            beta, lower_bound, upper_bound, lookahead)

\* the while loop of AI.mtdf
mtdf_loop(h, guess, move, lower_bound, upper_bound, lookahead, search_dict) ==
  IF ~Lt(lower_bound, upper_bound)
  THEN [score |-> guess, move |-> move, table |-> search_dict]
  ELSE mtdf_search(h, IF guess = lower_bound THEN Add(guess, Num(1)) ELSE guess,
                   lower_bound, upper_bound, lookahead, search_dict)

\* AI.mtdf
mtdf(h, first_guess, lookahead, search_dict) ==
  mtdf_loop(h, first_guess, None, NegInf, PosInf, lookahead, search_dict)

RECURSIVE deepening_loop(_, _, _, _, _, _, _, _)
RECURSIVE deepening_step(_, _, _, _, _, _, _)

\* the loop body of AI.iterative_deepening after its mtdf call r
deepening_step(h, difficulty, stop, depth, even_guess, odd_guess, r) ==
  IF depth >= stop
  THEN [score |-> r.score, move |-> r.move, table |-> r.table, depth |-> depth]
  ELSE deepening_loop(h, difficulty, stop, depth + 1,
                      IF depth % 2 = 0 THEN r.score ELSE even_guess,
                      IF depth % 2 = 0 THEN odd_guess ELSE r.score,
                      r, r.table)

\* the for loop of AI.iterative_deepening from depth on; the wall clock is
\* the parameter stop, the first depth after which the deadline has passed
deepening_loop(h, difficulty, stop, depth, even_guess, odd_guess, last_found, search_dict) ==
  IF depth >= difficulty
  THEN [score |-> last_found.score, move |-> last_found.move, table |-> search_dict,
        depth |-> depth - 1]
  ELSE deepening_step(h, difficulty, stop, depth, even_guess, odd_guess,
                      mtdf(h, IF depth % 2 = 0 THEN even_guess ELSE odd_guess,
                           depth, search_dict))

\* AI.iterative_deepening; move is unbound (None here) if no depth ran
iterative_deepening(h, difficulty, stop, search_dict) ==
  deepening_loop(h, difficulty, stop, 1, Num(0), Num(0),
                 [score |-> Num(0), move |-> None], search_dict)

\* the aging with the floor one lower: entries of depth 2 are kept as well
aged_from_two(search_dict) ==
  [k \in {k \in DOMAIN search_dict : search_dict[k][3] >= 2} |->
     <<search_dict[k][1], search_dict[k][2], search_dict[k][3] - 2,
       search_dict[k][4]>>]

\* the dict comprehension of ai_play that ages the table
aged(search_dict) ==
  [k \in {k \in DOMAIN search_dict : search_dict[k][3] >= 3} |->
     <<search_dict[k][1], search_dict[k][2], search_dict[k][3] - 2,
       search_dict[k][4]>>]

\* what ai_play returns and leaves in self.search_dict after the search r
ai_play_found(r, search_dict, keep) ==
  [best_move |-> r.move,
   search_dict |-> IF keep THEN search_dict ELSE aged(r.table),
   depth |-> r.depth]

\* ai_play with the None branch searching two plies instead of one
ai_play_two_plies(oth, table, difficulty, stop, search_dict) ==
  IF difficulty = None
  THEN ai_play_found(
         minimax(get_hash_version(oth, table), NegInf, PosInf, TRUE, TRUE, 2,
                 EmptyDict) @@ [depth |-> 2],
         search_dict, TRUE)
  ELSE ai_play_found(
         iterative_deepening(get_hash_version(oth, table), difficulty[1], stop,
                             search_dict),
         search_dict, FALSE)

\* AI.ai_play on the live game oth: difficulty is <<>> for None, <<n>> else
ai_play(oth, table, difficulty, stop, search_dict) ==
  IF difficulty = None
  THEN ai_play_found(
         minimax(get_hash_version(oth, table), NegInf, PosInf, TRUE, TRUE, 1,
                 EmptyDict) @@ [depth |-> 1],
         search_dict, TRUE)
  ELSE ai_play_found(
         iterative_deepening(get_hash_version(oth, table), difficulty[1], stop,
                             search_dict),
         search_dict, FALSE)

(***************************************************************************)
(* Recorded games: move lists in the saved-game order (one <<x, y>> per    *)
(* ply), each a legal game from the opening position.                      *)
(***************************************************************************)
\* 53 plies, then W to move with 7 empty cells and B unable to move
G1 ==
  << <<4, 5>>, <<5, 5>>, <<2, 3>>, <<2, 4>>, <<3, 5>>, <<4, 2>>, <<5, 3>>,
  <<2, 2>>, <<4, 1>>, <<4, 6>>, <<1, 3>>, <<4, 0>>, <<3, 6>>, <<6, 3>>, <<1,
  1>>, <<0, 0>>, <<6, 5>>, <<6, 6>>, <<5, 4>>, <<3, 7>>, <<2, 1>>, <<1, 2>>,
  <<5, 6>>, <<3, 0>>, <<1, 4>>, <<6, 4>>, <<2, 0>>, <<1, 0>>, <<4, 7>>, <<5,
  7>>, <<6, 7>>, <<7, 7>>, <<7, 5>>, <<7, 4>>, <<2, 5>>, <<1, 5>>, <<1, 6>>,
  <<3, 1>>, <<2, 7>>, <<7, 6>>, <<5, 2>>, <<3, 2>>, <<0, 3>>, <<0, 4>>, <<0,
  6>>, <<6, 2>>, <<5, 1>>, <<0, 5>>, <<0, 1>>, <<0, 7>>, <<7, 2>>, <<0, 2>>,
  <<2, 6>> >>

\* 56 plies, 4 empty cells left
G2 ==
  << <<5, 4>>, <<3, 5>>, <<2, 3>>, <<1, 2>>, <<3, 6>>, <<4, 5>>, <<4, 6>>,
  <<3, 7>>, <<2, 5>>, <<3, 2>>, <<0, 1>>, <<1, 4>>, <<1, 3>>, <<1, 1>>, <<3,
  1>>, <<3, 0>>, <<4, 1>>, <<6, 3>>, <<5, 6>>, <<2, 1>>, <<2, 7>>, <<5, 1>>,
  <<2, 2>>, <<4, 7>>, <<5, 3>>, <<6, 7>>, <<0, 4>>, <<0, 3>>, <<2, 4>>, <<1,
  7>>, <<4, 0>>, <<1, 5>>, <<1, 6>>, <<0, 7>>, <<6, 1>>, <<5, 0>>, <<0, 2>>,
  <<7, 1>>, <<2, 0>>, <<0, 0>>, <<6, 0>>, <<1, 0>>, <<4, 2>>, <<0, 5>>, <<6,
  5>>, <<6, 4>>, <<2, 6>>, <<5, 2>>, <<5, 5>>, <<7, 6>>, <<6, 6>>, <<7, 0>>,
  <<6, 2>>, <<7, 7>>, <<0, 6>>, <<5, 7>> >>

\* 55 plies, 5 empty cells left
G3 ==
  << <<4, 5>>, <<3, 5>>, <<2, 6>>, <<5, 5>>, <<3, 2>>, <<2, 4>>, <<2, 3>>,
  <<2, 5>>, <<4, 6>>, <<3, 7>>, <<1, 4>>, <<0, 3>>, <<0, 4>>, <<4, 2>>, <<0,
  2>>, <<1, 7>>, <<2, 7>>, <<1, 5>>, <<5, 6>>, <<6, 6>>, <<4, 1>>, <<1, 3>>,
  <<1, 2>>, <<1, 1>>, <<0, 7>>, <<2, 2>>, <<0, 6>>, <<3, 1>>, <<4, 7>>, <<0,
  5>>, <<6, 4>>, <<0, 1>>, <<7, 7>>, <<5, 2>>, <<6, 7>>, <<6, 5>>, <<2, 1>>,
  <<5, 7>>, <<0, 0>>, <<4, 0>>, <<5, 0>>, <<2, 0>>, <<1, 0>>, <<5, 3>>, <<6,
  2>>, <<7, 5>>, <<3, 0>>, <<7, 1>>, <<6, 3>>, <<5, 4>>, <<6, 1>>, <<3, 6>>,
  <<5, 1>>, <<7, 0>>, <<6, 0>> >>

\* a complete game of 60 plies ending 33 W - 31 B
G4 ==
  << <<2, 3>>, <<2, 4>>, <<5, 5>>, <<2, 2>>, <<1, 5>>, <<3, 2>>, <<1, 1>>,
  <<1, 4>>, <<1, 3>>, <<0, 6>>, <<1, 6>>, <<5, 4>>, <<2, 5>>, <<1, 2>>, <<2,
  1>>, <<1, 7>>, <<4, 2>>, <<5, 1>>, <<5, 2>>, <<6, 2>>, <<6, 4>>, <<3, 0>>,
  <<2, 0>>, <<3, 5>>, <<4, 5>>, <<4, 6>>, <<5, 6>>, <<7, 3>>, <<4, 7>>, <<6,
  7>>, <<6, 5>>, <<6, 6>>, <<0, 3>>, <<0, 0>>, <<0, 1>>, <<5, 3>>, <<7, 2>>,
  <<6, 1>>, <<2, 6>>, <<6, 3>>, <<7, 6>>, <<7, 7>>, <<6, 0>>, <<3, 1>>, <<7,
  4>>, <<5, 7>>, <<0, 4>>, <<0, 5>>, <<0, 7>>, <<5, 0>>, <<3, 7>>, <<2, 7>>,
  <<0, 2>>, <<7, 1>>, <<3, 6>>, <<1, 0>>, <<7, 0>>, <<7, 5>>, <<4, 0>>, <<4,
  1>> >>

\* a complete game of 60 plies ending 32 - 32
G5 ==
  << <<3, 2>>, <<2, 4>>, <<1, 5>>, <<2, 2>>, <<4, 2>>, <<4, 1>>, <<5, 4>>,
  <<2, 3>>, <<3, 1>>, <<5, 5>>, <<2, 1>>, <<5, 3>>, <<6, 4>>, <<6, 3>>, <<4,
  6>>, <<5, 6>>, <<5, 0>>, <<5, 1>>, <<6, 6>>, <<1, 1>>, <<6, 0>>, <<2, 5>>,
  <<7, 3>>, <<7, 5>>, <<3, 5>>, <<7, 2>>, <<6, 5>>, <<2, 6>>, <<1, 2>>, <<7,
  6>>, <<4, 5>>, <<1, 3>>, <<0, 3>>, <<5, 7>>, <<7, 7>>, <<0, 4>>, <<1, 0>>,
  <<5, 2>>, <<0, 1>>, <<6, 1>>, <<1, 7>>, <<0, 0>>, <<3, 6>>, <<0, 2>>, <<0,
  5>>, <<6, 7>>, <<4, 7>>, <<7, 4>>, <<4, 0>>, <<0, 6>>, <<7, 1>>, <<2, 0>>,
  <<3, 0>>, <<1, 6>>, <<6, 2>>, <<7, 0>>, <<3, 7>>, <<2, 7>>, <<1, 4>>, <<0,
  7>> >>

\* a complete game of 15 plies in which W is wiped out
G6 ==
  << <<5, 4>>, <<5, 5>>, <<2, 3>>, <<5, 3>>, <<6, 5>>, <<4, 2>>, <<5, 6>>,
  <<6, 4>>, <<6, 3>>, <<5, 2>>, <<4, 1>>, <<5, 1>>, <<5, 0>>, <<2, 2>>, <<1,
  1>> >>

(***************************************************************************)
(* Bounds of the exploration                                               *)
(***************************************************************************)
\* free (unscripted) plies explored from the opening position
MaxPlies == 4

\* zobrist tables tried
MaxSeed == 2

\* depth of the searches called, and of the successor chains followed
MaxDepth == 4

\* the difficulty argument of iterative_deepening (depths 1 .. MaxLevel - 1)
MaxLevel == 5

\* plies of a saved game loaded before the snapshots are taken
MaxLoad == 3

\* successors followed from a snapshot
MaxChain == 3

\* HashedLocalVersus objects of one search tree that are followed
MaxNodes == 4

\* lines of the damaged save files
MaxFile == 5

\* largest seek_amount given to a SavedGamesLoader, the default apart
MaxSeek == 3

\* calls of mtdf made one after the other on the same search_dict
MaxCalls == 2

(***************************************************************************)
(* State                                                                    *)
(***************************************************************************)
VARIABLES
  kind,            \* class of the game object
  board,           \* Othello.board
  possible_moves,  \* Othello.possible_moves
  playing_colour,  \* LocalVersus.playing_colour
  gen,             \* the end_game_iterator generator of the running loop
  yields,          \* colours that generator has yielded so far
  pc,              \* "load", "next" (loop head), "turn" (loop body), "done", "raised",
                   \* "called" (a direct call returned), "mtdf" and "deepening"
                   \* (inside the loop of mtdf, of iterative_deepening; "called"
                   \* is also ai_play between its search and its return),
                   \* "new" and "loaded" (a SavedGamesLoader before and after load)
  script,          \* clicks the players have decided on in advance
  budget,          \* free plies still explored
  commands,        \* Load*: the lines of the save file
  line_count,      \* Load*: self.line_count
  line,            \* Load*: the local line_count of load
  table,           \* AI.table
  search_dict,     \* AI.search_dict
  difficulty,      \* AI.difficulty: <<>> for None, <<n>> for n
  node,            \* a HashedLocalVersus snapshot under exploration, or the
                   \* fields SavedGamesLoader adds to the game object
  last             \* the last operation, its inputs and its result

vars == <<kind, board, possible_moves, playing_colour, gen, yields, pc, script,
          budget, commands, line_count, line, table, search_dict, difficulty,
          node, last>>

ai_colour == "W"

live == [board |-> board, possible_moves |-> possible_moves]

NoNode == [active |-> FALSE]

\* clicks that can_be_placed must turn down: out of range, occupied, corner
BadClicks == {<<-1, 0>>, <<0, 8>>, <<3, 3>>, <<0, 0>>}

\* Othello.__init__ followed by LocalVersus.__init__ up to the call of play
InitGame(k, s, b) ==
  /\ kind = k
  /\ board = StartBoard
  /\ possible_moves = board_change(StartBoard)
  /\ playing_colour = "B"
  /\ gen = gen_new("B")
  /\ yields = 0
  /\ script = s
  /\ budget = b
  /\ node = NoNode
  /\ last = [op |-> "init"]

NoLoad ==
  /\ commands = <<>>
  /\ line_count = 0
  /\ line = 0

NoAI ==
  /\ table = <<>>
  /\ search_dict = EmptyDict
  /\ difficulty = None

\* a local game: the players click a recorded game, then freely to the end,
\* or freely from the opening for MaxPlies plies
Init ==
  /\ \/ InitGame("LocalVersus", <<>>, MaxPlies)
     \/ \E s \in {G1, G2, G3, SubSeq(G4, 1, 55), SubSeq(G5, 1, 55), G6} :
          InitGame("LocalVersus", s, BOARD_SIZE * BOARD_SIZE)
  /\ pc = "next"
  /\ NoLoad
  /\ NoAI

(***************************************************************************)
(* LocalVersus.play / AI.play                                              *)
(***************************************************************************)
\* the head of the for loop: next() on the generator; when it is exhausted
\* the loop ends with print_board and evaluate_winner
NextTurn ==
  /\ pc = "next"
  /\ LET g == gen_next(gen, possible_moves)
     IN /\ gen' = g.gen
        /\ IF g.yielded = "StopIteration"
           THEN /\ pc' = "done"
                /\ UNCHANGED <<playing_colour, yields>>
                /\ last' = [op |-> "end", before |-> live]
           ELSE /\ pc' = "turn"
                /\ playing_colour' = g.yielded
                /\ yields' = yields + 1
                /\ last' = [op |-> "yield", colour |-> g.yielded, before |-> live]
  /\ UNCHANGED <<kind, board, possible_moves, script, budget, commands, line_count,
                 line, table, search_dict, difficulty, node>>

human_turn == kind \in {"LocalVersus", "LoadLocalVersus"} \/ playing_colour # ai_colour

\* one answer of get_pos in the loop body: a click that can_be_placed turns
\* down leaves the loop waiting, an accepted one is saved and placed
Click(pos) ==
  /\ pc = "turn"
  /\ human_turn
  /\ LET tup == can_be_placed(live, pos, playing_colour)
     IN IF ~tup[2]
        THEN /\ last' = [op |-> "reject", pos |-> pos, colour |-> playing_colour,
                         before |-> live]
             /\ UNCHANGED <<board, possible_moves, pc, script, budget>>
        ELSE LET p == place(live, tup[1], playing_colour)
             IN /\ board' = p.board
                /\ possible_moves' = p.possible_moves
                /\ pc' = IF p.raised = "" THEN "next" ELSE "raised"
                /\ script' = IF script = <<>> THEN script ELSE Tail(script)
                /\ budget' = IF script = <<>> THEN budget - 1 ELSE budget
                /\ last' = [op |-> "place", pos |-> tup[1], colour |-> playing_colour,
                            before |-> live, returned |-> p.result,
                            raised |-> p.raised]
  /\ UNCHANGED <<kind, playing_colour, gen, yields, commands, line_count, line,
                 table, search_dict, difficulty, node>>

\* the clicks tried: the scripted one while the script lasts, then every
\* legal cell and the bad clicks
Play ==
  IF script # <<>>
  THEN Click(Head(script))
  ELSE /\ budget > 0
       /\ \E pos \in keys(possible_moves[playing_colour]) \cup BadClicks : Click(pos)

Next == NextTurn \/ Play

Spec == Init /\ [][Next]_vars

\* a player who has a legal move goes on clicking until a click is accepted
Move ==
  /\ pc = "turn"
  /\ possible_moves[playing_colour] # <<>>
  /\ pc' = "next"

\* complete games: a recorded game is clicked and then played out freely
InitLive ==
  /\ \E s \in {G1, G2, G3, G4, G5, G6} :
       InitGame("LocalVersus", s, BOARD_SIZE * BOARD_SIZE)
  /\ pc = "next"
  /\ NoLoad
  /\ NoAI

LiveSpec == InitLive /\ [][Next]_vars /\ WF_vars(NextTurn) /\ WF_pc(Move)

(***************************************************************************)
(* Othello.place called directly, without can_be_placed in front of it     *)
(***************************************************************************)
PlaceCall(pos, colour) ==
  /\ pc = "turn"
  /\ LET p == place(live, pos, colour)
     IN /\ board' = p.board
        /\ possible_moves' = p.possible_moves
        /\ pc' = IF p.raised = "" THEN "called" ELSE "raised"
        /\ last' = [op |-> "place", pos |-> pos, colour |-> colour, before |-> live,
                    returned |-> p.result, raised |-> p.raised]
  /\ UNCHANGED <<kind, playing_colour, gen, yields, script, budget, commands,
                 line_count, line, table, search_dict, difficulty, node>>

NextPlace ==
  \/ NextTurn
  \/ Play
  \/ \E pos \in Rng \X Rng : \E colour \in Colours : PlaceCall(pos, colour)

InitPlace ==
  /\ InitGame("LocalVersus", <<>>, MaxPlies - 1)
  /\ pc = "next"
  /\ NoLoad
  /\ NoAI

SpecPlace == InitPlace /\ [][NextPlace]_vars

(***************************************************************************)
(* LoadLocalVersus.load / LoadAI.load                                      *)
(***************************************************************************)
\* one round of the for loop over zip(commands, end_game_iterator): zip asks
\* commands first and the generator second; when either is exhausted, or the
\* loop breaks, the statement after the loop flips playing_colour and play
\* starts a new generator from it
LoadStep ==
  /\ pc = "load"
  /\ LET g == gen_next(gen, possible_moves)
         ends == line >= Len(commands) \/ g.yielded = "StopIteration"
         colour == IF ends THEN playing_colour ELSE g.yielded
     IN IF ends \/ line = line_count
        THEN /\ playing_colour' = FLIP_RULE[colour]
             /\ gen' = gen_new(FLIP_RULE[colour])
             /\ pc' = "next"
             /\ last' = [op |-> "loaded", before |-> live]
             /\ UNCHANGED <<board, possible_moves, line>>
        ELSE LET tup == can_be_placed(live, commands[line + 1], colour)
             IN /\ playing_colour' = colour
                /\ gen' = g.gen
                /\ line' = line + 1
                /\ IF ~tup[2]
                   THEN /\ pc' = "raised"
                        /\ last' = [op |-> "BoardError", pos |-> tup[1],
                                    colour |-> colour, before |-> live]
                        /\ UNCHANGED <<board, possible_moves>>
                   ELSE LET p == place(live, tup[1], colour)
                        IN /\ board' = p.board
                           /\ possible_moves' = p.possible_moves
                           /\ pc' = "load"
                           /\ last' = [op |-> "place", pos |-> tup[1],
                                       colour |-> colour, before |-> live,
                                       returned |-> p.result, raised |-> p.raised]
  /\ UNCHANGED <<kind, yields, script, budget, commands, line_count, table,
                 search_dict, difficulty, node>>

\* LoadAI.__init__ up to the call of load, for a save file of the given lines
InitLoadAI(lines, count, level, free) ==
  /\ InitGame("LoadAI", <<>>, free)
  /\ pc = "load"
  /\ commands = lines
  /\ line_count = count
  /\ line = 0
  /\ \E seed \in 1 .. MaxSeed : table = getrandbits_table(seed)
  /\ search_dict = EmptyDict
  /\ difficulty = level

\* a save file with line k overwritten
Overwritten(lines, k, pos) == [lines EXCEPT ![k] = pos]

\* what a damaged line may hold: the bad clicks and two cells near the centre
BadLines == BadClicks \cup {<<2, 2>>, <<4, 5>>}

\* LoadLocalVersus.__init__ up to the call of load: the first MaxFile plies of
\* a saved game with one line overwritten, replayed as far as the damage or
\* to the end
InitLoad ==
  /\ InitGame("LoadLocalVersus", <<>>, 1)
  /\ pc = "load"
  /\ \E k \in 1 .. MaxFile : \E pos \in BadLines :
       commands = Overwritten(SubSeq(G3, 1, MaxFile), k, pos)
  /\ line_count \in 0 .. MaxFile
  /\ line = 0
  /\ NoAI

NextLoad == LoadStep \/ NextTurn \/ Play

SpecLoad == InitLoad /\ [][NextLoad]_vars

(***************************************************************************)
(* AI.iterative_deepening followed depth by depth.  The frame of the       *)
(* running call is in last: depth is the value the for loop binds next,    *)
(* completed lists what each finished mtdf call returned, examined counts  *)
(* the evaluations of the deadline test, searched_from is the dict the     *)
(* call was handed as the caller saw it then.  The wall clock is the       *)
(* parameter expired of a round: what "start_time + search_time <= time()" *)
(* gives; between two rounds the call may wait in sleep(1.5), the dict     *)
(* holding what the depths done have written.                              *)
(***************************************************************************)
\* python's state of the local name move before the loop has bound it
Unbound == "unbound"

\* AI.iterative_deepening(self.get_hash_version(), difficulty, search_time,
\* self.search_dict) up to the head of the for loop
DeepeningCall(level) ==
  /\ pc = "turn"
  /\ ~human_turn
  /\ last' = [op |-> "iterative_deepening", at |-> "for", before |-> live,
              difficulty |-> level, depth |-> 1, first_guess |-> Num(0),
              even_guess |-> Num(0), odd_guess |-> Num(0), move |-> Unbound,
              completed |-> <<>>, examined |-> 0, searched_from |-> search_dict]
  /\ pc' = "deepening"
  /\ UNCHANGED <<kind, board, possible_moves, playing_colour, gen, yields, script,
                 budget, commands, line_count, line, table, search_dict, difficulty,
                 node>>

\* the loop body after its mtdf call r: the result is bound to first_guess
\* and move and to the guess of its parity, then the deadline is tested
DeepeningRan(expired, r) ==
  /\ last' = [last EXCEPT
                !.first_guess = r.score,
                !.move = r.move,
                !.even_guess = IF last.depth % 2 = 0 THEN r.score ELSE @,
                !.odd_guess = IF last.depth % 2 = 0 THEN @ ELSE r.score,
                !.completed = Append(@, [depth |-> last.depth, score |-> r.score,
                                         move |-> r.move]),
                !.examined = @ + 1,
                !.at = IF expired THEN "break" ELSE "for",
                !.depth = IF expired THEN @ ELSE @ + 1]
  /\ search_dict' = r.table

\* one round of the for loop over range(1, difficulty)
DeepeningRound(expired) ==
  /\ pc = "deepening"
  /\ last.at = "for"
  /\ last.depth < last.difficulty
  /\ DeepeningRan(expired,
                  mtdf(get_hash_version(live, table),
                       IF last.depth % 2 = 0 THEN last.even_guess ELSE last.odd_guess,
                       last.depth, search_dict))
  /\ UNCHANGED <<kind, board, possible_moves, playing_colour, gen, yields, pc,
                 script, budget, commands, line_count, line, table, difficulty,
                 node>>

\* return first_guess, move: after the break or when the range is used up;
\* reading move while it is unbound raises UnboundLocalError
DeepeningReturn ==
  /\ pc = "deepening"
  /\ last.at = "break" \/ last.depth >= last.difficulty
  /\ IF last.move = Unbound
     THEN /\ pc' = "raised"
          /\ last' = [last EXCEPT !.at = "UnboundLocalError"]
     ELSE /\ pc' = "called"
          /\ last' = [last EXCEPT !.at = IF @ = "break" THEN "return after break"
                                        ELSE "return"]
  /\ UNCHANGED <<kind, board, possible_moves, playing_colour, gen, yields, script,
                 budget, commands, line_count, line, table, search_dict, difficulty,
                 node>>

(***************************************************************************)
(* AI.play: the turn of the AI                                             *)
(***************************************************************************)
\* self.place(tup[0], self.playing_colour) of AI.play, p being what the
\* call left of the game and searched_from the dict ai_play started from
AIPlaced(best_move, depth, p, searched_from) ==
  /\ board' = p.board
  /\ possible_moves' = p.possible_moves
  /\ pc' = IF p.raised = "" THEN "next" ELSE "raised"
  /\ last' = [op |-> "ai_play", colour |-> playing_colour, before |-> live,
              returned |-> best_move, depth |-> depth, raised |-> p.raised,
              searched_from |-> searched_from]

\* AI.play once ai_play has come back with r
AIReturned(r, searched_from) ==
  /\ search_dict' = r.search_dict
  /\ IF r.best_move = None
     THEN /\ pc' = "raised"
          /\ last' = [op |-> "ai_play", colour |-> playing_colour,
                      before |-> live, returned |-> None,
                      depth |-> r.depth, raised |-> "UnboundLocalError",
                      searched_from |-> searched_from]
          /\ UNCHANGED <<board, possible_moves>>
     ELSE AIPlaced(r.best_move, r.depth, place(live, r.best_move, playing_colour),
                   searched_from)

\* the AI's turn with self.difficulty None, as far as the sleep(1) of
\* ai_play: the one-ply search has come back, on a dict of its own, and
\* ai_play waits with the game and self.search_dict as they were
AIMinimax ==
  /\ pc = "turn"
  /\ ~human_turn
  /\ difficulty = None
  /\ last' = [op |-> "sleep", before |-> live, searched_from |-> search_dict,
              found |-> ai_play(live, table, difficulty, 1, search_dict)]
  /\ pc' = "called"
  /\ UNCHANGED <<kind, board, possible_moves, playing_colour, gen, yields, script,
                 budget, commands, line_count, line, table, search_dict, difficulty,
                 node>>

\* the rest of the AI's turn, after the sleep(1) of ai_play or after
\* iterative_deepening has returned: with a difficulty the aging of
\* self.search_dict in ai_play, then return, save and place in AI.play
AIMoveSearched ==
  /\ pc = "called"
  /\ last.op \in {"sleep", "iterative_deepening"}
  /\ AIReturned(IF last.op = "sleep" THEN last.found
                ELSE ai_play_found([move |-> last.move, table |-> search_dict,
                                    depth |-> Len(last.completed)], search_dict, FALSE),
                last.searched_from)
  /\ UNCHANGED <<kind, playing_colour, gen, yields, script, budget, commands,
                 line_count, line, table, difficulty, node>>

\* a loaded AI game with difficulty None: the human clicks, the AI answers
NextNone == LoadStep \/ NextTurn \/ Play \/ AIMinimax \/ AIMoveSearched

\* a loaded AI game at a level: the human clicks, the AI answers with
\* ai_play, whose iterative_deepening is followed depth by depth
NextAI ==
  \/ LoadStep
  \/ NextTurn
  \/ Play
  \/ (difficulty # None /\ DeepeningCall(difficulty[1]))
  \/ \E expired \in BOOLEAN : DeepeningRound(expired)
  \/ DeepeningReturn
  \/ AIMoveSearched

InitAI ==
  InitLoadAI(G1, Len(G1), <<MaxLevel>>, MaxPlies)

SpecAI == InitAI /\ [][NextAI]_vars

\* the same games with self.difficulty None: saved games of four to six
\* empty cells are loaded, the human clicks freely, the AI answers
InitNone ==
  \E lines \in {G2, G3, SubSeq(G4, 1, 54), SubSeq(G4, 1, 55), SubSeq(G5, 1, 54),
                SubSeq(G5, 1, 55)} :
    InitLoadAI(lines, Len(lines), None, MaxPlies)

SpecNone == InitNone /\ [][NextNone]_vars

\* both play loops: the local games of Init run LocalVersus.play, the
\* loaded AI games of InitNone run AI.play
InitPlay == Init \/ InitNone

SpecPlay == InitPlay /\ [][NextNone]_vars

\* the games of InitAI and of InitNone together: every kind of difficulty
InitAging == InitAI \/ InitNone

SpecAging == InitAging /\ [][NextAI \/ AIMinimax]_vars

(***************************************************************************)
(* The snapshots the search works on                                       *)
(***************************************************************************)
\* self.get_hash_version() as ai_play passes it to the search
Snapshot ==
  /\ pc = "turn"
  /\ ~human_turn
  /\ ~node.active
  /\ node' = [active |-> TRUE, h |-> get_hash_version(live, table),
              maximising_player |-> TRUE, depth |-> 0]
  /\ last' = [op |-> "get_hash_version", before |-> live]
  /\ UNCHANGED <<kind, board, possible_moves, playing_colour, gen, yields, pc,
                 script, budget, commands, line_count, line, table, search_dict,
                 difficulty>>

\* one successor of sort_actions: new_board.place(action, player) on a deep
\* copy, with the side to move minimax passes on to it
Expand(action) ==
  /\ node.active
  /\ node.depth < MaxChain
  /\ LET player == IF node.maximising_player THEN "W" ELSE "B"
         new_board == Hashed_place(node.h, action, player)
     IN /\ action \in keys(node.h.possible_moves[player])
        /\ node' = [active |-> TRUE,
                    h |-> [board |-> new_board.board, hash_num |-> new_board.hash_num,
                           possible_moves |-> new_board.possible_moves,
                           table |-> new_board.table],
                    maximising_player |->
                      IF node.maximising_player
                      THEN Len(new_board.possible_moves["B"]) = 0
                      ELSE Len(new_board.possible_moves["W"]) # 0,
                    depth |-> node.depth + 1]
        /\ last' = [op |-> "Hashed_place", pos |-> action, colour |-> player,
                    before |-> [board |-> node.h.board,
                                possible_moves |-> node.h.possible_moves]]
  /\ UNCHANGED <<kind, board, possible_moves, playing_colour, gen, yields, pc,
                 script, budget, commands, line_count, line, table, search_dict,
                 difficulty>>

NextHash ==
  \/ LoadStep
  \/ NextTurn
  \/ Play
  \/ Snapshot
  \/ \E action \in Rng \X Rng : Expand(action)

\* saved games of up to MaxLoad plies and two endgames, resumed against the AI
InitHash ==
  \E lines \in {SubSeq(G3, 1, count) : count \in 0 .. MaxLoad} \cup {G2, G3} :
    InitLoadAI(lines, Len(lines), None, 1)

SpecHash == InitHash /\ [][NextHash]_vars

\* games near their end, so that the nodes followed from a snapshot include
\* the ends of the game: two to five empty cells, and the 13 plies after
\* which Light can be wiped out
InitLeaf ==
  \E lines \in {G2, G3, SubSeq(G4, 1, 56), SubSeq(G4, 1, 57), SubSeq(G5, 1, 56),
                SubSeq(G5, 1, 57), SubSeq(G6, 1, 13)} :
    InitLoadAI(lines, Len(lines), None, 1)

SpecLeaf == InitLeaf /\ [][NextHash]_vars

(***************************************************************************)
(* The objects behind the snapshots.  node.heap maps object identities to  *)
(* values: 0 is the board list of the live game, 1 its possible_moves      *)
(* dict, the others are the HashedBoard objects and the dicts allocated    *)
(* since.  node.nodes lists the HashedLocalVersus objects of the search    *)
(* tree, each a pair of references, with its parent, the action that led   *)
(* to it and the side minimax takes to move on it; played is what          *)
(* end_game_iterator does when the game itself is played along the same    *)
(* moves: its state and the colour it yields on this position.             *)
(***************************************************************************)
\* the identity the next allocation gets
fresh(heap) == Cardinality(DOMAIN heap)

\* what a HashedLocalVersus object shows through its references
view(heap, obj) ==
  [board          |-> heap[obj.board_state].board,
   hash_num       |-> heap[obj.board_state].hash_num,
   possible_moves |-> heap[obj.possible_moves],
   table          |-> table]

\* copy.copy in the place of __deepcopy__: the HashedBoard is shared as well
Hashed_deepcopy_shared(heap, obj) ==
  [heap |-> heap,
   obj  |-> [board_state |-> obj.board_state, possible_moves |-> obj.possible_moves]]

\* HashedLocalVersus.__deepcopy__: a new HashedBoard with a copy of the
\* board and the same hash_num; possible_moves and table are shared
Hashed_deepcopy(heap, obj) ==
  [heap |-> heap @@ (fresh(heap) :> heap[obj.board_state]),
   obj  |-> [board_state |-> fresh(heap), possible_moves |-> obj.possible_moves]]

\* the writes of HashedLocalVersus.place, p being what the call computes:
\* the board and hash_num are written into the object's own HashedBoard,
\* board_change binds self.possible_moves to a new dict
Hashed_place_writes(c, p) ==
  [heap |-> [c.heap EXCEPT ![c.obj.board_state] =
                             [board |-> p.board, hash_num |-> p.hash_num]]
            @@ (fresh(c.heap) :> p.possible_moves),
   obj  |-> [board_state |-> c.obj.board_state, possible_moves |-> fresh(c.heap)]]

\* new_board = deepcopy(board); new_board.place(action, player)
new_board_place(c, action, player) ==
  Hashed_place_writes(c, Hashed_place(view(c.heap, c.obj), action, player))

\* get_hash_version: HashedLocalVersus(HashedBoard(deepcopy(self.board),
\* zobrist_hash), self.possible_moves, self.table)
SnapshotObjects ==
  /\ pc = "turn"
  /\ ~human_turn
  /\ ~node.active
  /\ node' = [active |-> TRUE,
              heap   |-> (0 :> board) @@ (1 :> possible_moves) @@
                         (2 :> [board |-> board, hash_num |-> zobrist(board, table)]),
              nodes  |-> << [board_state |-> 2, possible_moves |-> 1, parent |-> 0,
                             action |-> None, maximising_player |-> TRUE,
                             played |-> [gen |-> gen, yielded |-> playing_colour]] >>]
  /\ last' = [op |-> "get_hash_version", before |-> live]
  /\ UNCHANGED <<kind, board, possible_moves, playing_colour, gen, yields, pc,
                 script, budget, commands, line_count, line, table, search_dict,
                 difficulty>>

\* the state after one round of the loop of sort_actions, c being the new
\* object and the heap it lives in
Expanded(i, action, c) ==
  /\ node' = [active |-> TRUE,
              heap   |-> c.heap,
              nodes  |-> Append(node.nodes,
                           c.obj @@ [parent |-> i, action |-> action,
                                     played |-> gen_next(node.nodes[i].played.gen,
                                                         c.heap[c.obj.possible_moves]),
                                     maximising_player |->
                                       IF node.nodes[i].maximising_player
                                       THEN Len(c.heap[c.obj.possible_moves]["B"]) = 0
                                       ELSE Len(c.heap[c.obj.possible_moves]["W"]) # 0])]
  /\ board' = c.heap[0]
  /\ possible_moves' = c.heap[1]
  /\ last' = [op |-> "sort_actions", parent |-> i, action |-> action,
              before |-> live, heap |-> node.heap, nodes |-> node.nodes]

\* one round of the loop of sort_actions on node i of the tree, for an
\* action of the side to move there that has not been expanded yet
ExpandObject(i, action) ==
  /\ node.active
  /\ i \in DOMAIN node.nodes
  /\ Len(node.nodes) < MaxNodes
  /\ action \in keys(node.heap[node.nodes[i].possible_moves]
                       [IF node.nodes[i].maximising_player THEN "W" ELSE "B"])
  /\ \A j \in DOMAIN node.nodes :
       ~(node.nodes[j].parent = i /\ node.nodes[j].action = action)
  /\ Expanded(i, action,
              new_board_place(Hashed_deepcopy(node.heap, node.nodes[i]), action,
                              IF node.nodes[i].maximising_player THEN "W" ELSE "B"))
  /\ UNCHANGED <<kind, playing_colour, gen, yields, pc, script, budget, commands,
                 line_count, line, table, search_dict, difficulty>>

NextObjects ==
  \/ LoadStep
  \/ NextTurn
  \/ Play
  \/ SnapshotObjects
  \/ \E i \in 1 .. MaxNodes : \E action \in Rng \X Rng : ExpandObject(i, action)

\* endgames resumed against the AI, the human being first to move in the
\* last two
InitObjects ==
  \E lines \in {G1, G2, G3, SubSeq(G4, 1, 55), SubSeq(G4, 1, 56), SubSeq(G5, 1, 56)} :
    InitLoadAI(lines, Len(lines), None, 1)

SpecObjects == InitObjects /\ [][NextObjects]_vars

(***************************************************************************)
(* The search functions called on the position of the game                 *)
(***************************************************************************)
\* the value and the move a search came back with and the table it left, as
\* the call record
Searched(record, r) ==
  last' = record @@ [before |-> live, score |-> r.score, move |-> r.move,
                     searched_moves |-> r.table]

\* AI.minimax(self.get_hash_version(), -inf, +inf, True, True, lookahead, {})
CallMinimax(lookahead) ==
  /\ pc = "turn"
  /\ ~human_turn
  /\ Searched([op |-> "minimax", lookahead |-> lookahead],
              minimax(get_hash_version(live, table), NegInf, PosInf, TRUE, TRUE,
                      lookahead, EmptyDict))
  /\ pc' = "called"
  /\ UNCHANGED <<kind, board, possible_moves, playing_colour, gen, yields, script,
                 budget, commands, line_count, line, table, search_dict, difficulty,
                 node>>

\* AI.mtdf(self.get_hash_version(), first_guess, lookahead, {})
CallMtdf(first_guess, lookahead) ==
  /\ pc = "turn"
  /\ ~human_turn
  /\ Searched([op |-> "mtdf", lookahead |-> lookahead, first_guess |-> first_guess],
              mtdf(get_hash_version(live, table), Num(first_guess), lookahead,
                   EmptyDict))
  /\ pc' = "called"
  /\ UNCHANGED <<kind, board, possible_moves, playing_colour, gen, yields, script,
                 budget, commands, line_count, line, table, search_dict, difficulty,
                 node>>

\* AI.terminal_utility(self.get_hash_version())
CallTerminalUtility ==
  /\ pc \in {"turn", "done"}
  /\ last' = [op |-> "terminal_utility", before |-> live,
              returned |-> terminal_utility(get_hash_version(live, table))]
  /\ pc' = "called"
  /\ UNCHANGED <<kind, board, possible_moves, playing_colour, gen, yields, script,
                 budget, commands, line_count, line, table, search_dict, difficulty,
                 node>>

\* AI.heuristic_utility(self.get_hash_version())
CallHeuristicUtility ==
  /\ pc \in {"turn", "done"}
  /\ last' = [op |-> "heuristic_utility", before |-> live,
              returned |-> heuristic_utility(get_hash_version(live, table))]
  /\ pc' = "called"
  /\ UNCHANGED <<kind, board, possible_moves, playing_colour, gen, yields, script,
                 budget, commands, line_count, line, table, search_dict, difficulty,
                 node>>

NextScore ==
  \/ LoadStep
  \/ NextTurn
  \/ Play
  \/ CallTerminalUtility
  \/ CallHeuristicUtility

\* positions all along the recorded games: a saved game is loaded up to
\* every fifth of its plies, or whole, and resumed against the AI
InitScore ==
  \E lines \in {G1, G2, G3, G4, G5, G6} :
    \E count \in {c \in 0 .. Len(lines) : c % 5 = 0 \/ c = Len(lines)} :
      InitLoadAI(lines, count, None, 1)

SpecScore == InitScore /\ [][NextScore]_vars

\* the starting guesses tried: 0 as in iterative_deepening, and one on each side
Guesses == {-100, 0, 100}

NextSearch ==
  \/ LoadStep
  \/ NextTurn
  \/ Play
  \/ \E lookahead \in 1 .. MaxDepth : CallMinimax(lookahead)
  \/ \E lookahead \in 1 .. MaxDepth : \E g \in Guesses : CallMtdf(g, lookahead)
  \/ CallTerminalUtility
  \/ CallHeuristicUtility

\* the whole of a saved game is loaded and resumed against the AI; in the
\* two games saved four plies before their end the human is first to move
InitSearch ==
  \E lines \in {G2, G3, G4, G5, G6, SubSeq(G4, 1, 56), SubSeq(G5, 1, 56)} :
    InitLoadAI(lines, Len(lines), <<MaxLevel>>, 1)

SpecSearch == InitSearch /\ [][NextSearch]_vars

(***************************************************************************)
(* AI.mtdf followed round by round.  The frame of the running call is in   *)
(* last; search_dict is the dict object passed in, which minimax writes,   *)
(* so a later call finds what the earlier ones left.                       *)
(***************************************************************************)
\* calls of mtdf that have returned on this position
calls == IF last.op = "mtdf" THEN last.calls ELSE 0

\* AI.mtdf(self.get_hash_version(), first_guess, lookahead, self.search_dict)
\* up to the head of the while loop
MtdfCall(first_guess, lookahead) ==
  /\ pc = "turn"
  /\ ~human_turn
  /\ calls < MaxCalls
  /\ last' = [op |-> "mtdf", at |-> "while", before |-> live, calls |-> calls,
              first_guess |-> first_guess, lookahead |-> lookahead,
              guess |-> Num(first_guess), move |-> None,
              lower_bound |-> NegInf, upper_bound |-> PosInf, beta |-> None]
  /\ pc' = "mtdf"
  /\ UNCHANGED <<kind, board, possible_moves, playing_colour, gen, yields, script,
                 budget, commands, line_count, line, table, search_dict, difficulty,
                 node>>

\* the end of the loop body, r being what minimax returned for the window
\* (beta - 1, beta)
MtdfSearched(beta, r) ==
  /\ last' = [last EXCEPT !.guess = r.score, !.move = r.move, !.beta = beta,
                          !.upper_bound = IF Lt(r.score, beta) THEN r.score ELSE @,
                          !.lower_bound = IF Lt(r.score, beta) THEN @ ELSE r.score]
  /\ search_dict' = r.table

\* the null-window search of one round
MtdfWindow(beta) ==
  MtdfSearched(beta, minimax(get_hash_version(live, table), Add(beta, Num(-1)), beta,
                             TRUE, TRUE, last.lookahead, search_dict))

\* one round of the while loop
MtdfSearch ==
  /\ pc = "mtdf"
  /\ Lt(last.lower_bound, last.upper_bound)
  /\ MtdfWindow(IF last.guess = last.lower_bound THEN Add(last.guess, Num(1))
                ELSE last.guess)
  /\ UNCHANGED <<kind, board, possible_moves, playing_colour, gen, yields, pc,
                 script, budget, commands, line_count, line, table, difficulty,
                 node>>

\* the loop condition fails: return guess, move
MtdfReturn ==
  /\ pc = "mtdf"
  /\ ~Lt(last.lower_bound, last.upper_bound)
  /\ last' = [last EXCEPT !.at = "return", !.calls = @ + 1]
  /\ pc' = "turn"
  /\ UNCHANGED <<kind, board, possible_moves, playing_colour, gen, yields, script,
                 budget, commands, line_count, line, table, search_dict, difficulty,
                 node>>

NextMtdf ==
  \/ LoadStep
  \/ NextTurn
  \/ Play
  \/ \E lookahead \in 1 .. MaxDepth : \E g \in Guesses : MtdfCall(g, lookahead)
  \/ MtdfSearch
  \/ MtdfReturn

\* the saved games of InitSearch, mtdf being called at the AI's turns
SpecMtdf == InitSearch /\ [][NextMtdf]_vars

NextDeepening ==
  \/ LoadStep
  \/ NextTurn
  \/ Play
  \/ \E level \in 1 .. MaxLevel : DeepeningCall(level)
  \/ \E expired \in BOOLEAN : DeepeningRound(expired)
  \/ DeepeningReturn

\* the saved games of InitSearch, iterative_deepening being called at the
\* AI's turns with every difficulty up to MaxLevel
SpecDeepening == InitSearch /\ [][NextDeepening]_vars

(***************************************************************************)
(* The rules of Othello, stated without the code's iterators               *)
(***************************************************************************)
Dirs == ({-1, 0, 1} \X {-1, 0, 1}) \ {<<0, 0>>}

Cells == Rng \X Rng

\* from pos, n steps along dir reach a piece of colour c over opposing pieces only
Brackets(b, pos, c, dir, n) ==
  /\ pos[1] + n * dir[1] \in Rng
  /\ pos[2] + n * dir[2] \in Rng
  /\ b[pos[2] + n * dir[2]][pos[1] + n * dir[1]] = c
  /\ \A k \in 1 .. (n - 1) :
       b[pos[2] + k * dir[2]][pos[1] + k * dir[1]] = (IF c = "W" THEN "B" ELSE "W")

Captures(b, pos, c) ==
  {dir \in Dirs : \E n \in 2 .. (BOARD_SIZE - 1) : Brackets(b, pos, c, dir, n)}

Legal(b, c) ==
  {pos \in Cells : b[pos[2]][pos[1]] = "E" /\ Captures(b, pos, c) # {}}

\* the cells a move of c at pos turns over
Flipped(b, pos, c) ==
  {q \in Cells :
     \E dir \in Dirs : \E n \in 2 .. (BOARD_SIZE - 1) :
        /\ Brackets(b, pos, c, dir, n)
        /\ \E k \in 1 .. (n - 1) : q = <<pos[1] + k * dir[1], pos[2] + k * dir[2]>>}

RefPlace(b, pos, c) ==
  [y \in Rng |-> [x \in Rng |->
     IF <<x, y>> = pos \/ <<x, y>> \in Flipped(b, pos, c) THEN c ELSE b[y][x]]]

Changed(b1, b2) == {q \in Cells : b1[q[2]][q[1]] # b2[q[2]][q[1]]}

Pieces(b, c) == Cardinality({q \in Cells : b[q[2]][q[1]] = c})

BothBlocked == possible_moves["W"] = <<>> /\ possible_moves["B"] = <<>>

RECURSIVE plain_minimax(_, _, _)
\* minimax over the depth-limited tree, without window and without table
plain_minimax(h, maximising_player, lookahead) ==
  IF check_if_terminal(h) THEN Num(terminal_utility(h))
  ELSE IF lookahead <= 0 THEN heuristic_utility(h)
  ELSE LET player == IF maximising_player THEN "W" ELSE "B"
           moves == h.possible_moves[player]
           value(i) ==
             LET nb == Hashed_place(h, moves[i].pos, player)
                 next == IF maximising_player
                         THEN Len(nb.possible_moves["B"]) = 0
                         ELSE Len(nb.possible_moves["W"]) # 0
             IN plain_minimax(nb, next, lookahead - 1)
           values == {value(i) : i \in DOMAIN moves}
       IN IF maximising_player
          THEN CHOOSE v \in values : \A w \in values : Le(w, v)
          ELSE CHOOSE v \in values : \A w \in values : Le(v, w)

\* the side minimax takes to move after player's move led to new_board
NextMaximising(new_board, maximising_player) ==
  IF maximising_player
  THEN Len(new_board.possible_moves["B"]) = 0
  ELSE Len(new_board.possible_moves["W"]) # 0

\* the plain minimax value, lookahead plies deep, of the position Light's
\* move leads to from the game oth
MoveValue(oth, move, lookahead) ==
  LET new_board == Hashed_place(get_hash_version(oth, table), move, "W")
  IN plain_minimax(new_board, NextMaximising(new_board, TRUE), lookahead)

\* a normalised difference, 0 where the denominator is 0
Ratio(a, b) == IF a + b = 0 THEN Num(0) ELSE Frac(a - b, a + b)

\* the corner cells of the board
Corners == {<<0, 0>>, <<0, BOARD_SIZE - 1>>, <<BOARD_SIZE - 1, 0>>,
            <<BOARD_SIZE - 1, BOARD_SIZE - 1>>}

\* the weighted sum of the four features with every denominator guarded
GuardedHeuristic(oth) ==
  Add(Add(Add(Scale(30, Ratio(Cardinality({q \in Corners : oth.board[q[2]][q[1]] = "W"}),
                              Cardinality({q \in Corners : oth.board[q[2]][q[1]] = "B"}))),
              Scale(5, Ratio(Cardinality(Legal(oth.board, "W")),
                             Cardinality(Legal(oth.board, "B"))))),
          Scale(25, Ratio(Cardinality(stability(oth.board)[2]),
                          Cardinality(stability(oth.board)[1])))),
      Scale(25, Ratio(Pieces(oth.board, "W"), Pieces(oth.board, "B"))))

\* the position a key of the table stands for
Keyed(key) ==
  [board |-> key.board, hash_num |-> key.hash_num,
   possible_moves |-> board_change(key.board), table |-> table]

\* an entry <<value, type_of_info, depth, move>> read as a statement about V
Sound(e, V) ==
  CASE e[2] = 1 -> Cmp(e[1], V) = 0
    [] e[2] = 0 -> Le(e[1], V)
    [] e[2] = 2 -> Le(V, e[1])

\* the entry of key is sound for one of the two sides to move
EntrySound(key, e) ==
  \E side \in Colours :
    /\ e[4] \in keys(Keyed(key).possible_moves[side])
    /\ Sound(e, plain_minimax(Keyed(key), side = "W", e[3]))

RECURSIVE Lookups(_, _, _, _, _, _)
RECURSIVE LookupsMax(_, _, _, _, _, _, _)
RECURSIVE LookupsMin(_, _, _, _, _, _, _)

\* the lookups of the calls minimax makes for the successors from i on in its
\* maximising loop, each successor searched on the table its elder left
LookupsMax(sorted_actions, i, score, a, beta, lookahead, searched_moves) ==
  IF i > Len(sorted_actions) THEN {}
  ELSE LET new_board == sorted_actions[i].new_board
           flag == Len(new_board.possible_moves["B"]) = 0
           r == minimax(new_board, a, beta, flag, FALSE, lookahead - 1, searched_moves)
           a2 == Max(a, Max(score, r.score))
       IN Lookups(new_board, a, beta, flag, lookahead - 1, searched_moves)
          \cup (IF Le(beta, a2) THEN {}
                ELSE LookupsMax(sorted_actions, i + 1, Max(score, r.score), a2, beta,
                                lookahead, r.table))

\* the same for the minimising loop
LookupsMin(sorted_actions, i, score, alpha, b, lookahead, searched_moves) ==
  IF i > Len(sorted_actions) THEN {}
  ELSE LET new_board == sorted_actions[i].new_board
           flag == Len(new_board.possible_moves["W"]) # 0
           r == minimax(new_board, alpha, b, flag, FALSE, lookahead - 1, searched_moves)
           b2 == Min(b, Min(score, r.score))
       IN Lookups(new_board, alpha, b, flag, lookahead - 1, searched_moves)
          \cup (IF Le(b2, alpha) THEN {}
                ELSE LookupsMin(sorted_actions, i + 1, Min(score, r.score), alpha, b2,
                                lookahead, r.table))

\* the history of the call minimax(h, alpha, beta, maximising_player, _,
\* lookahead, searched_moves): for every call made in it, the key looked up,
\* the side to move of the calling node, whether an entry was there, the
\* move and the depth it holds, and, where the call goes on to its loop, the
\* successors in the order sort_actions gave them, each with what utility
\* gave for it
Lookups(h, alpha, beta, maximising_player, lookahead, searched_moves) ==
  LET key == board_state(h)
      found == key \in DOMAIN searched_moves
      hit == found /\ searched_moves[key][3] >= lookahead
      a0 == IF hit /\ searched_moves[key][2] = 0
            THEN Max(alpha, searched_moves[key][1]) ELSE alpha
      b0 == IF hit /\ searched_moves[key][2] = 2
            THEN Min(beta, searched_moves[key][1]) ELSE beta
      check_move_first == IF hit THEN searched_moves[key][4] ELSE None
      returns == \/ hit /\ (searched_moves[key][2] = 1 \/ Le(b0, a0))
                 \/ check_if_terminal(h)
                 \/ lookahead <= 0
      player == IF maximising_player THEN "W" ELSE "B"
      factor == IF maximising_player THEN 1 ELSE -1
      sorted_actions == sort_actions(h.possible_moves[player], h, check_move_first,
                                     factor, player)
      here == {[key |-> key, maximising_player |-> maximising_player,
                found |-> found,
                move |-> IF found THEN searched_moves[key][4] ELSE None,
                depth |-> IF found THEN searched_moves[key][3] ELSE None,
                lookahead |-> lookahead,
                expanded |-> ~returns,
                order |-> IF returns THEN <<>>
                          ELSE [k \in DOMAIN sorted_actions |->
                                  [action |-> sorted_actions[k].action,
                                   utility |-> utility(sorted_actions[k].new_board,
                                                       sorted_actions[k].action,
                                                       factor)]]]}
  IN IF returns THEN here
     ELSE IF maximising_player
     THEN here \cup LookupsMax(sorted_actions, 1, NegInf, a0, b0, lookahead,
                               searched_moves)
     ELSE here \cup LookupsMin(sorted_actions, 1, PosInf, a0, b0, lookahead,
                               searched_moves)

(***************************************************************************)
(* class SavedGamesLoader.  The object is an Othello game (board,          *)
(* possible_moves); its own fields seek_amount, current_line, max_line,    *)
(* previous_states and colour are in node, the lines of its file in        *)
(* commands.  previous_states is a python list: index k is element k + 1.  *)
(***************************************************************************)
\* previous_states[k] of python: raised is "IndexError" past the end
list_get(previous_states, k) ==
  IF k + 1 \in DOMAIN previous_states
  THEN [raised |-> "", item |-> previous_states[k + 1]]
  ELSE [raised |-> "IndexError", item |-> None]

RECURSIVE load_loop(_, _, _, _, _, _, _)
\* the for loop of SavedGamesLoader.load over zip(commands, end_game_iterator):
\* zip asks commands first and the generator second; every round appends the
\* board and the colour yielded before it tests seek_amount; done is the
\* local line_count
load_loop(oth, g, cmds, done, seek_amount, previous_states, colour) ==
  IF done >= Len(cmds)
  THEN [oth |-> oth, previous_states |-> previous_states, colour |-> colour, raised |-> ""]
  ELSE LET n == gen_next(g, oth.possible_moves)
           ps == Append(previous_states, [board |-> oth.board, colour |-> n.yielded])
       IN IF n.yielded = "StopIteration"
          THEN [oth |-> oth, previous_states |-> previous_states, colour |-> colour,
                raised |-> ""]
          ELSE IF done = seek_amount
          THEN [oth |-> oth, previous_states |-> ps, colour |-> n.yielded, raised |-> ""]
          ELSE IF ~can_be_placed(oth, cmds[done + 1], n.yielded)[2]
          THEN [oth |-> oth, previous_states |-> ps, colour |-> n.yielded,
                raised |-> "BoardError"]
          ELSE load_loop(place(oth, cmds[done + 1], n.yielded), n.gen, cmds,
                         done + 1, seek_amount, ps, n.yielded)

\* SavedGamesLoader.load
Loader_load ==
  /\ pc = "new"
  /\ LET r == load_loop(live, gen_new(FLIP_RULE[node.colour]), commands, 0,
                        node.seek_amount, node.previous_states, node.colour)
     IN /\ board' = r.oth.board
        /\ possible_moves' = r.oth.possible_moves
        /\ IF r.raised # ""
           THEN /\ node' = [node EXCEPT !.max_line = Len(commands),
                                        !.previous_states = r.previous_states,
                                        !.colour = r.colour]
                /\ pc' = "raised"
           ELSE /\ node' = [node EXCEPT !.max_line = Len(commands),
                                        !.previous_states =
                                          Append(r.previous_states,
                                                 [board |-> r.oth.board,
                                                  colour |-> r.colour]),
                                        !.colour = r.colour,
                                        !.current_line = Len(commands)]
                /\ pc' = "loaded"
        /\ last' = [op |-> "load", raised |-> r.raised, before |-> live,
                    line_before |-> node.current_line, prev |-> [op |-> last.op]]
  /\ UNCHANGED <<kind, playing_colour, gen, yields, script, budget, commands,
                 line_count, line, table, search_dict, difficulty>>

\* the body shared by line_load_forwards and line_load_backwards: inside
\* the range current_line becomes k and update_board_state is given
\* previous_states[k]; at the end BoardError is raised.  The record of the
\* call keeps what the call before it was and the board that one started from
line_load(op, k, inside) ==
  LET state == list_get(node.previous_states, k)
      raised == IF inside THEN state.raised ELSE "BoardError"
  IN /\ last' = [op |-> op, raised |-> raised, before |-> live,
                 line_before |-> node.current_line,
                 prev |-> [op |-> last.op, raised |-> last.raised,
                           board |-> last.before.board]]
     /\ IF ~inside
        THEN UNCHANGED <<board, possible_moves, node, pc>>
        ELSE IF raised # ""
        THEN /\ node' = [node EXCEPT !.current_line = k]
             /\ pc' = "raised"
             /\ UNCHANGED <<board, possible_moves>>
        ELSE /\ node' = [node EXCEPT !.current_line = k, !.colour = state.item.colour]
             /\ board' = state.item.board
             /\ possible_moves' = board_change(state.item.board)
             /\ pc' = "loaded"
     /\ UNCHANGED <<kind, playing_colour, gen, yields, script, budget, commands,
                    line_count, line, table, search_dict, difficulty>>

\* SavedGamesLoader.line_load_forwards
line_load_forwards ==
  /\ pc = "loaded"
  /\ line_load("line_load_forwards", node.current_line + 1,
               node.current_line < node.max_line)

\* SavedGamesLoader.line_load_backwards
line_load_backwards ==
  /\ pc = "loaded"
  /\ line_load("line_load_backwards", node.current_line - 1, node.current_line > 0)

NextLoader == Loader_load \/ line_load_forwards \/ line_load_backwards

\* SavedGamesLoader.__init__ for the saved games shown in the viewer: short
\* and whole files, seek_amount from below zero up to MaxSeek and the
\* default, 64
InitViewer ==
  \E lines \in {SubSeq(G4, 1, n) : n \in 0 .. MaxSeek + 2} \cup {G1, G4, G6} :
    \E seek_amount \in (-1 .. MaxSeek) \cup {64} :
      /\ kind = "SavedGamesLoader"
      /\ board = StartBoard
      /\ possible_moves = board_change(StartBoard)
      /\ playing_colour = "B"
      /\ gen = gen_new("B")
      /\ yields = 0
      /\ script = <<>>
      /\ budget = 0
      /\ last = [op |-> "init"]
      /\ pc = "new"
      /\ commands = lines
      /\ line_count = 0
      /\ line = 0
      /\ NoAI
      /\ node = [active |-> FALSE,
                 seek_amount |-> IF seek_amount > 0 THEN seek_amount ELSE 0,
                 current_line |-> 0, max_line |-> 1, previous_states |-> <<>>,
                 colour |-> "W"]

SpecLoader == InitViewer /\ [][NextLoader]_vars

(***************************************************************************)
(* Claims                                                                  *)
(***************************************************************************)
\* C1: after every placement HashedLocalVersus.place makes on a snapshot from
\* get_hash_version, the incrementally kept hash_num equals the XOR over all
\* 64 cells recomputed from scratch for the resulting board.
C1_HashConsistency ==
  node.active => node.h.hash_num = zobrist(node.h.board, node.h.table)

\* a successor two placements deep whose last placement turned over pieces
\* in addition to the piece placed
C1_Witness ==
  /\ node.active
  /\ node.depth >= 2
  /\ last.op = "Hashed_place"
  /\ Cardinality(Changed(last.before.board, node.h.board)) >= 3

\* C2: on every reachable board and for both colours, the keys of
\* possible_moves are exactly the empty cells where the colour brackets at
\* least one line, and the directions recorded for a key are exactly the
\* bracketing directions, each once.
C2_MoveIndexSound ==
  \A c \in Colours :
    /\ keys(possible_moves[c]) = Legal(board, c)
    /\ Cardinality(keys(possible_moves[c])) = Len(possible_moves[c])
    /\ \A i \in DOMAIN possible_moves[c] :
         LET e == possible_moves[c][i]
         IN /\ {e.lines[k] : k \in DOMAIN e.lines} = Captures(board, e.pos, c)
            /\ Len(e.lines) = Cardinality(Captures(board, e.pos, c))

\* a board reached by a move on which some cell captures in three directions
C2_Witness ==
  /\ last.op = "place"
  /\ \E c \in Colours : \E i \in DOMAIN possible_moves[c] :
       Len(possible_moves[c][i].lines) >= 3

\* C3: place(pos, colour) with pos a key of possible_moves[colour] returns
\* pos, leaves the board equal to the reference result (pos and the bracketed
\* opposing cells become colour, nothing else changes) and leaves the move
\* index recomputed for the new board.
C3_LegalMoveEffect ==
  (last.op = "place" /\ last.pos \in keys(last.before.possible_moves[last.colour]))
  => /\ last.raised = ""
     /\ last.returned = last.pos
     /\ board = RefPlace(last.before.board, last.pos, last.colour)
     /\ \A c \in Colours : keys(possible_moves[c]) = Legal(board, c)

\* a legal move that captures in two directions or more
C3_Witness ==
  /\ last.op = "place"
  /\ last.pos \in keys(last.before.possible_moves[last.colour])
  /\ Len(get(last.before.possible_moves[last.colour], last.pos)) >= 2
  /\ Cardinality(Changed(last.before.board, board)) >= 4

\* C4: place on an occupied cell, or on an empty cell that is not a key of
\* the acting colour's legal moves, fails with an error and leaves every
\* cell of the board as it was.
C4_IllegalMoveRejected ==
  (last.op = "place" /\ last.pos \notin keys(last.before.possible_moves[last.colour]))
  => /\ last.raised # ""
     /\ board = last.before.board

\* C5: every colour end_game_iterator yields has a legal move when it is
\* yielded, and the sequence ends exactly when neither colour has one.
C5_TurnSequenceSafety ==
  [][pc = "next" =>
       /\ (pc' = "done") <=> BothBlocked
       /\ (pc' = "turn") => possible_moves[playing_colour'] # <<>>]_vars

\* the colour yielded after a forced pass
C5_Witness ==
  /\ last.op = "yield"
  /\ gen.at = "y2"
  /\ possible_moves[FLIP_RULE[playing_colour]] = <<>>

\* C6: from the opening position, with a legal move of the yielded colour
\* after each yield, at most 60 colours are yielded and the game ends.
C6_TurnSequenceTermination ==
  /\ [](yields <= 60)
  /\ <>(pc = "done")

\* a game that ended after 60 yields
C6_Witness ==
  /\ pc = "done"
  /\ yields = 60

\* C7: each ai_play of AI.play returns a key of the legal moves of the AI
\* colour on the live board.
C7_ChosenMoveLegal ==
  last.op = "ai_play" => last.returned \in keys(last.before.possible_moves[ai_colour])

\* C8: the value of AI.minimax with the window (-inf, +inf) equals the value
\* of plain minimax over the same depth-limited tree.
C8_FullWindowIsPlainMinimax ==
  last.op = "minimax"
  => Cmp(last.score,
         plain_minimax(get_hash_version(last.before, table), TRUE, last.lookahead)) = 0

\* C9: the score AI.mtdf returns equals the value of the full-window
\* AI.minimax at the same depth, for every starting guess.
C9_MtdfIsFullWindow ==
  last.op = "mtdf"
  => Cmp(last.score,
         minimax(get_hash_version(last.before, table), NegInf, PosInf, TRUE, TRUE,
                 last.lookahead, EmptyDict).score) = 0

\* C10: terminal_utility returns 0 on equal counts, 85 + (light - dark) when
\* Light has more pieces and -(85 + (dark - light)) when Dark has more; so
\* 33 Light against 31 Dark gives 87 and 32 against 32 gives 0.
C10_TerminalScoring ==
  last.op = "terminal_utility"
  => LET light == Pieces(last.before.board, "W")
         dark  == Pieces(last.before.board, "B")
     IN /\ light = dark => last.returned = 0
        /\ light > dark => last.returned = 85 + (light - dark)
        /\ light < dark => last.returned = -(85 + (dark - light))
        /\ (light = 33 /\ dark = 31) => last.returned = 87

\* the full board with 33 Light and 31 Dark, scored 87
C10_Witness ==
  /\ last.op = "terminal_utility"
  /\ Pieces(last.before.board, "W") = 33
  /\ Pieces(last.before.board, "B") = 31
  /\ Pieces(last.before.board, "E") = 0
  /\ last.returned = 87

\* C11 (as claimed): with difficulty None the one search ai_play makes, with
\* the full window and an empty table, is not cut off by a depth budget: no
\* call in it has its lookahead used up on a position that is not terminal.
C11_NoneSearchesToTheEnd ==
  (last.op = "ai_play" /\ difficulty = None)
  => \A e \in Lookups(get_hash_version(last.before, table), NegInf, PosInf, TRUE,
                      last.depth, EmptyDict) :
       e.lookahead <= 0 => check_if_terminal(Keyed(e.key))

\* C11 (amended): with difficulty None ai_play makes one full-window search
\* one ply deep: the move returned is a legal move of Light whose successor,
\* valued by terminal_utility if the game is over there and by
\* heuristic_utility otherwise, is valued highest among Light's moves, and
\* self.search_dict is left as it was.
C11_NoneSearchesOnePly ==
  (last.op = "ai_play" /\ difficulty = None)
  => /\ last.returned \in keys(last.before.possible_moves["W"])
     /\ Cmp(MoveValue(last.before, last.returned, 0),
            plain_minimax(get_hash_version(last.before, table), TRUE, 1)) = 0
     /\ search_dict = EmptyDict

\* the AI moved at difficulty None with a choice of moves, and the game was
\* not over after its move: the successor was valued by the heuristic
C11_Witness ==
  /\ last.op = "ai_play"
  /\ difficulty = None
  /\ Len(last.before.possible_moves["W"]) >= 2
  /\ ~BothBlocked

\* C12: on the opening board the move index of Dark has exactly four keys and
\* no other cell is legal for Dark; each key captures along one direction and
\* turns over exactly one piece, a Light one, and each key touches a piece of
\* the central cluster diagonally.
C12_OpeningLegality ==
  board = StartBoard
  => /\ Len(possible_moves["B"]) = 4
     /\ Cardinality(keys(possible_moves["B"])) = 4
     /\ keys(possible_moves["B"]) = Legal(StartBoard, "B")
     /\ \A i \in DOMAIN possible_moves["B"] :
          LET e == possible_moves["B"][i]
          IN /\ Len(e.lines) = 1
             /\ Cardinality(Flipped(StartBoard, e.pos, "B")) = 1
             /\ \A q \in Flipped(StartBoard, e.pos, "B") : StartBoard[q[2]][q[1]] = "W"
             /\ \E q \in DOMAIN START_POS :
                  Abs(q[1] - e.pos[1]) = 1 /\ Abs(q[2] - e.pos[2]) = 1

\* Dark has been given the first turn on the opening board
C12_Witness ==
  /\ board = StartBoard
  /\ last.op = "yield"
  /\ playing_colour = "B"
  /\ pc = "turn"

\* C13: heuristic_utility raises no division fault: it returns the weighted
\* sum in which a feature whose denominator is zero counts 0 (mobility when
\* neither colour has a legal move, corners when all four are empty,
\* stability when no stable cell is counted).
C13_EveryFeatureGuarded ==
  last.op = "heuristic_utility"
  => /\ last.returned # ZeroDivisionError
     /\ Cmp(last.returned, GuardedHeuristic(last.before)) = 0

\* C14: a round of sort_actions leaves the board and the move index of the
\* live game as they were, and leaves the board, the hash and the move index
\* of every object that was in the tree before it (the node expanded, its
\* ancestors, its siblings) as they were: only the new copy is written.
C14_SnapshotIsolation ==
  last.op = "sort_actions"
  => /\ live = last.before
     /\ \A j \in DOMAIN last.nodes :
          view(node.heap, node.nodes[j]) = view(last.heap, last.nodes[j])
     /\ view(node.heap, node.nodes[Len(node.nodes)]).board
          = RefPlace(view(last.heap, last.nodes[last.parent]).board, last.action,
                     IF last.nodes[last.parent].maximising_player THEN "W" ELSE "B")

\* a second successor of a node was placed, turning over pieces, while its
\* sibling and a node below the root were already in the tree
C14_Witness ==
  /\ last.op = "sort_actions"
  /\ Len(node.nodes) >= 4
  /\ \E j \in DOMAIN last.nodes : last.nodes[j].parent = last.parent
  /\ \E j \in DOMAIN last.nodes : last.nodes[j].parent > 1
  /\ Cardinality(Changed(view(last.heap, last.nodes[last.parent]).board,
                         view(node.heap, node.nodes[Len(node.nodes)]).board)) >= 2

\* C15: each round of load that replays a line either finds it a legal move
\* of the colour the turn sequence gives, applies it as the rules say and
\* goes on, or raises BoardError with the board and the move index as the
\* lines before it left them; nothing is replayed after the error.
C15_MalformedHistory ==
  [][/\ (pc = "load" /\ line' = line + 1)
        => IF commands[line'] \in Legal(board, playing_colour')
           THEN /\ pc' = "load"
                /\ board' = RefPlace(board, commands[line'], playing_colour')
           ELSE /\ pc' = "raised"
                /\ last'.op = "BoardError"
                /\ UNCHANGED <<board, possible_moves>>
     /\ pc = "raised" => UNCHANGED <<board, possible_moves, line>>]_vars

\* BoardError on a line that has lines replayed before it and lines after it
C15_Witness ==
  /\ pc = "raised"
  /\ last.op = "BoardError"
  /\ line >= 3
  /\ line < Len(commands)
  /\ Pieces(board, "E") = BOARD_SIZE * BOARD_SIZE - 4 - (line - 1)

\* C16: when a colour has moved and the turn sequence yields again, it
\* yields the opponent if the opponent has a legal move on the board the
\* move left; the colour that moved is yielded again only if the opponent
\* has none.
C16_TurnAlternation ==
  [][(pc = "next" /\ last.op = "place" /\ pc' = "turn")
       => (IF possible_moves[FLIP_RULE[last.colour]] # <<>>
           THEN playing_colour' = FLIP_RULE[last.colour]
           ELSE playing_colour' = last.colour)]_vars

\* the colour minimax takes to move on node j of the tree
SideToMove(j) == IF node.nodes[j].maximising_player THEN "W" ELSE "B"

\* on node j the game, played along the same moves, gives the turn to the
\* colour minimax takes to move
TurnAgrees(j) == node.nodes[j].played.yielded = SideToMove(j)

\* C17: on every successor in the search tree that is not terminal, reached by
\* moves the game itself could have made, the colour minimax takes to move has
\* a legal move and is the colour end_game_iterator yields there.
C17_SearchTurnModel ==
  node.active
  => \A j \in 2 .. Len(node.nodes) :
       (/\ TurnAgrees(node.nodes[j].parent)
        /\ ~check_if_terminal(view(node.heap, node.nodes[j])))
       => /\ view(node.heap, node.nodes[j]).possible_moves[SideToMove(j)] # <<>>
          /\ TurnAgrees(j)

\* C18: every entry of the table a search leaves, and of self.search_dict
\* between the moves of a game, is sound: for the side to move on its board,
\* its move is legal and its value is the plain minimax value at the recorded
\* depth (kind 1), a lower bound of it (kind 0) or an upper bound (kind 2).
C18_EntriesSound ==
  /\ last.op \in {"minimax", "mtdf"}
     => \A key \in DOMAIN last.searched_moves :
          EntrySound(key, last.searched_moves[key])
  /\ \A key \in DOMAIN search_dict : EntrySound(key, search_dict[key])

\* C19: in a full-window search from an empty table no board is looked up
\* both at a node with Light to move and at a node with Dark to move, so no
\* entry is read by a side other than the one that stored it.
C19_KeyedBySideInEffect ==
  last.op = "minimax"
  => \A a, b \in Lookups(get_hash_version(last.before, table), NegInf, PosInf, TRUE,
                         last.lookahead, EmptyDict) :
       a.key = b.key => a.maximising_player = b.maximising_player

\* the round of the mtdf loop just made moved exactly one bound, strictly
\* inwards
BoundMoved ==
  \/ /\ last'.upper_bound = last.upper_bound
     /\ Lt(last.lower_bound, last'.lower_bound)
  \/ /\ last'.lower_bound = last.lower_bound
     /\ Lt(last'.upper_bound, last.upper_bound)

\* the bounds have met on the score that is returned
BoundsMet == last.lower_bound = last.upper_bound /\ last.guess = last.lower_bound

\* C20: every round of the loop of mtdf either strictly raises lower_bound
\* or strictly lowers upper_bound, so the loop ends after finitely many
\* searches, and when it ends lower_bound = upper_bound = the score
\* returned: the bounds meet, they do not cross.
C20_MtdfBoundsMeet ==
  [][/\ (pc = "mtdf" /\ pc' = "mtdf") => BoundMoved
     /\ (pc = "mtdf" /\ pc' = "turn") => BoundsMet]_vars

\* the frame of a call of iterative_deepening that has returned
Returned == last.op = "iterative_deepening" /\ last.at \in {"return", "return after break"}

\* the frame of a call of iterative_deepening that has ended, by return or
\* by raising
Ended == Returned \/ (last.op = "iterative_deepening" /\ last.at = "UnboundLocalError")

\* C21: iterative_deepening runs mtdf for the depths 1, 2, 3, ... one after
\* the other; the deadline is examined once after each completed depth and
\* never before one; every call completes depth 1 at least, and it returns
\* the score and move of the last depth it completed.
C21_DeepeningOrder ==
  last.op = "iterative_deepening"
  => /\ \A i \in DOMAIN last.completed : last.completed[i].depth = i
     /\ last.examined = Len(last.completed)
     /\ last.at = "for" => last.depth = Len(last.completed) + 1
     /\ last.at = "break" => last.depth = Len(last.completed)
     /\ Ended
        => /\ Len(last.completed) >= 1
           /\ Returned
           /\ last.first_guess = last.completed[Len(last.completed)].score
           /\ last.move = last.completed[Len(last.completed)].move

\* C22: when the deadline never passes, a call of iterative_deepening with
\* difficulty >= 1 completes every depth from 1 up to and including
\* difficulty and returns the score and move found at depth difficulty; it
\* never ends without a move.
C22_SearchExhaustion ==
  (last.op = "iterative_deepening" /\ last.at \in {"return", "UnboundLocalError"})
  => /\ last.at = "return"
     /\ Len(last.completed) = last.difficulty
     /\ last.first_guess = last.completed[last.difficulty].score
     /\ last.move = last.completed[last.difficulty].move

\* D holds exactly the entries of T of depth >= 3, two plies shallower and
\* otherwise as they were, none shallower than 1.  No entry kept is deeper
\* than it was searched: an entry of T is as it was in S, the dict the
\* search started from, or was stored by a minimax call of the search with
\* the lookahead it records, at most depth, the deepest the search went;
\* and, the two plies added back, no deeper than any search of the level
Pruned(T, D, S, depth, level) ==
  /\ DOMAIN D = {k \in DOMAIN T : T[k][3] >= 3}
  /\ \A k \in DOMAIN D :
       /\ D[k] = <<T[k][1], T[k][2], T[k][3] - 2, T[k][4]>>
       /\ D[k][3] >= 1
       /\ D[k][3] < T[k][3]
       /\ (k \in DOMAIN S /\ T[k] = S[k]) \/ T[k][3] <= depth
       /\ D[k][3] + 2 <= level - 1

\* C23: an ai_play with a difficulty leaves in self.search_dict exactly the
\* entries the search left with depth >= 3, each two plies shallower and
\* otherwise unchanged, so every entry kept has depth >= 1 and no more than
\* it was searched to; an ai_play with difficulty None leaves
\* self.search_dict as it was.
C23_TableAging ==
  (last.op = "ai_play" /\ last.returned # None)
  => IF difficulty = None
     THEN search_dict = last.searched_from
     ELSE Pruned(iterative_deepening(get_hash_version(last.before, table),
                                     difficulty[1], last.depth,
                                     last.searched_from).table,
                 search_dict, last.searched_from, last.depth, difficulty[1])

\* an ai_play of a game with a difficulty has left entries in the table,
\* and one of depth 2 among them
C23_Witness ==
  /\ last.op = "ai_play"
  /\ last.returned # None
  /\ difficulty # None
  /\ \E k \in DOMAIN search_dict : search_dict[k][3] = 2

\* the windows minimax is tried with on a node: the full one and a null one
Windows == {<<NegInf, PosInf>>, <<Num(-1), Num(0)>>}

\* C24: on every node of the search tree where neither colour has a move,
\* minimax returns terminal_utility, with depth budget left or without; and
\* where the budget is spent it returns heuristic_utility only on a node
\* that is not terminal, so never with both move counts 0 or with no piece
\* on the board, and the division by zero is never met.
C24_TerminalBeforeLeaf ==
  node.active
  => \A lookahead \in 0 .. 1 : \A w \in Windows :
       LET r == minimax(node.h, w[1], w[2], node.maximising_player, FALSE,
                        lookahead, EmptyDict)
           moves == Len(node.h.possible_moves["W"]) + Len(node.h.possible_moves["B"])
       IN /\ moves = 0
             => r.score = Num(terminal_utility(node.h)) /\ r.table = EmptyDict
          /\ r.score # ZeroDivisionError
          /\ (lookahead = 0 /\ r.score # Num(terminal_utility(node.h)))
             => /\ r.score = heuristic_utility(node.h)
                /\ moves > 0
                /\ Pieces(node.h.board, "W") + Pieces(node.h.board, "B") > 0

\* a node below the snapshot where neither colour has a move although a
\* cell is empty
C24_Witness ==
  /\ node.active
  /\ node.depth >= 1
  /\ node.h.possible_moves["W"] = <<>>
  /\ node.h.possible_moves["B"] = <<>>
  /\ Pieces(node.h.board, "E") > 0

\* C25: every score heuristic_utility returns lies in [-85, 85], and every
\* score of terminal_utility other than the draw's 0 is at least 86 when
\* Light has more pieces and at most -86 when Dark has, so it lies strictly
\* beyond every heuristic score on the winner's side.
C25_TerminalDominance ==
  /\ (last.op = "heuristic_utility" /\ last.returned # ZeroDivisionError)
     => Le(Num(-85), last.returned) /\ Le(last.returned, Num(85))
  /\ (last.op = "terminal_utility" /\ last.returned # 0)
     => IF Pieces(board, "W") > Pieces(board, "B")
        THEN last.returned >= 86
        ELSE last.returned <= -86 /\ Pieces(board, "B") > Pieces(board, "W")

\* terminal_utility has scored a finished game that Light won by two pieces
C25_Witness ==
  /\ last.op = "terminal_utility"
  /\ pc = "called"
  /\ BothBlocked
  /\ last.returned = 87

\* C26: in both play loops a position the human enters is placed only if it
\* is on the board and a legal move of the colour that was yielded, and then
\* as the rules say; any other input changes neither the board nor the move
\* index nor the colour to move, and the same colour is asked again.
C26_PlayLoopSafety ==
  [][(pc = "turn" /\ human_turn /\ last'.op \in {"place", "reject"})
     => IF last'.pos \in Legal(board, playing_colour)
        THEN /\ last'.op = "place"
             /\ last'.colour = playing_colour
             /\ board' = RefPlace(board, last'.pos, playing_colour)
        ELSE /\ last'.op = "reject"
             /\ pc' = "turn"
             /\ UNCHANGED <<board, possible_moves, playing_colour, gen, yields>>]_vars

\* in an AI game the human has been turned down on a cell of the board, and
\* is still the one to move on the board as it was
C26_Witness ==
  /\ kind = "LoadAI"
  /\ pc = "turn"
  /\ last.op = "reject"
  /\ last.pos \in Cells
  /\ playing_colour = last.colour
  /\ board = last.before.board

\* the placement recorded in last emptied no occupied cell, added exactly
\* one occupied cell, raised the mover's count by at least 2 and lowered the
\* opponent's by at least 1
Counted ==
  LET was == count_pieces(last.before.board)
      now == count_pieces(board)
      mover == last.colour
  IN /\ \A q \in Cells :
          last.before.board[q[2]][q[1]] # "E" => board[q[2]][q[1]] # "E"
     /\ now["E"] = was["E"] - 1
     /\ now["W"] + now["B"] = was["W"] + was["B"] + 1
     /\ now[mover] >= was[mover] + 2
     /\ now[FLIP_RULE[mover]] <= was[FLIP_RULE[mover]] - 1

\* C27: every cell of a reachable board holds E, W or B; a legal move, of the
\* human, of a replayed line or of the AI, empties no occupied cell, adds
\* exactly one occupied cell, raises the mover's count by at least 2 and
\* lowers the opponent's count by at least 1.
C27_PieceCount ==
  /\ \A q \in Cells : board[q[2]][q[1]] \in {"E", "W", "B"}
  /\ (/\ last.op = "place"
      /\ last.pos \in keys(last.before.possible_moves[last.colour]))
     => Counted
  /\ (/\ last.op = "ai_play"
      /\ last.returned \in keys(last.before.possible_moves[last.colour]))
     => Counted

\* the AI has played a legal move that turned over three pieces or more
C27_Witness ==
  /\ last.op = "ai_play"
  /\ last.returned \in keys(last.before.possible_moves[last.colour])
  /\ count_pieces(board)[last.colour]
       >= count_pieces(last.before.board)[last.colour] + 4

RECURSIVE TurnSequence(_, _, _, _)
\* the colour yielded after k of the moves in uninterrupted play: one
\* generator is resumed from the opening position, each colour it yields
\* plays the next move ("StopIteration" when the sequence has ended)
TurnSequence(oth, g, moves, k) ==
  LET n == gen_next(g, oth.possible_moves)
  IN IF k = 0 \/ n.yielded = "StopIteration" THEN n.yielded
     ELSE TurnSequence(place(oth, Head(moves), n.yielded), n.gen, Tail(moves), k - 1)

\* the play loop that follows load has just asked its generator for the
\* first time
FirstAsked ==
  /\ kind \in {"LoadAI", "LoadLocalVersus"}
  /\ line_count <= Len(commands)
  /\ \/ last.op = "yield" /\ yields = 1
     \/ last.op = "end" /\ yields = 0

\* C28: after load has replayed the first line_count plies of a saved game,
\* the first colour the play loop asks to move is the colour the turn
\* sequence started with Dark yields after the same plies in uninterrupted
\* play, and the loop ends at once exactly when that sequence has ended.
C28_ReplayTurnConsistency ==
  FirstAsked
  => LET next == TurnSequence(Othello_init(StartBoard), gen_new("B"), commands, line_count)
     IN IF last.op = "yield" THEN playing_colour = next ELSE next = "StopIteration"

\* the searches of the round of mtdf that is about to be made
RoundLookups ==
  LET beta == IF last.guess = last.lower_bound THEN Add(last.guess, Num(1))
              ELSE last.guess
  IN Lookups(get_hash_version(live, table), Add(beta, Num(-1)), beta, TRUE,
             last.lookahead, search_dict)

\* C29: whenever the table holds an entry for the board of a node that is
\* expanded, the successor by the entry's move is searched first, and the
\* other successors follow by decreasing static score.
C29_RememberedMoveFirst ==
  (pc = "mtdf" /\ Lt(last.lower_bound, last.upper_bound))
  => \A e \in RoundLookups :
       (e.found /\ e.expanded)
       => /\ e.order[1].action = e.move
          /\ \A k \in 2 .. Len(e.order) - 1 :
               e.order[k].utility >= e.order[k + 1].utility

RECURSIVE Replayed(_, _, _, _)
\* the game after the first k of the moves, each played by the colour the
\* turn sequence yields for it
Replayed(oth, g, moves, k) ==
  LET n == gen_next(g, oth.possible_moves)
  IN IF k = 0 \/ n.yielded = "StopIteration" THEN oth
     ELSE Replayed(place(oth, Head(moves), n.yielded), n.gen, Tail(moves), k - 1)

BoardAfter(k) == Replayed(Othello_init(StartBoard), gen_new("B"), commands, k).board

Navigated == last.op \in {"line_load_forwards", "line_load_backwards"}

\* C30: after load, whatever seek_amount was given and whatever calls of
\* line_load_forwards and line_load_backwards follow, current_line stays in
\* 0 .. max_line, previous_states[current_line] exists and is the board
\* shown, which is the board after exactly current_line plies; a call at
\* either end raises BoardError and changes neither; no call raises anything
\* else; a step forwards followed by a step backwards restores the board.
C30_Navigation ==
  /\ pc = "loaded"
     => /\ node.current_line \in 0 .. node.max_line
        /\ list_get(node.previous_states, node.current_line).raised = ""
        /\ list_get(node.previous_states, node.current_line).item.board = board
        /\ board = BoardAfter(node.current_line)
  /\ (Navigated /\ last.raised = "BoardError")
     => /\ node.current_line = last.line_before
        /\ board = last.before.board
        /\ node.current_line = IF last.op = "line_load_forwards"
                               THEN node.max_line ELSE 0
  /\ Navigated => last.raised \in {"", "BoardError"}
  /\ (/\ last.op = "line_load_backwards" /\ last.raised = ""
      /\ last.prev.op = "line_load_forwards" /\ last.prev.raised = "")
     => board = last.prev.board

====
